---- MODULE Spec2Model ----
(***************************************************************************)
(* Price tracker bot: tracking lifecycle (pause / resume / stop), the      *)
(* scheduled price-check cycle, the per-tracking alert decision and the    *)
(* batched notification dispatch.                                          *)
(*   src/database/db_manager.py      DatabaseManager                       *)
(*   src/handlers/tracking_handler.py  /pause /resume /stop commands       *)
(*   src/main.py                     PriceTrackerBot.check_prices          *)
(*   src/notifications/notifier.py   Notifier                              *)
(***************************************************************************)
EXTENDS Integers, Sequences, FiniteSets, TLC

\* ------------------------------------------------------------------------
\* Bounds of the model
\* ------------------------------------------------------------------------
\* highest value of the clock (datetime.utcnow()): no scrape succeeds beyond it
MaxTime == 2
\* how far below zero repeated /stop commands may take User.active_trackings
MaxOverStop == 1
\* largest number of events handed to send_batch_notifications in SpecDispatch
MaxEvents == 61
\* retention of the cleanup job (AUTO_CLEANUP_DAYS), in steps of the clock
CleanupDays == 1

\* ------------------------------------------------------------------------
\* Python values
\* ------------------------------------------------------------------------
\* Python's None in an Optional[float] / Optional[datetime] field
None == -1

\* Notifier.batch_size
batch_size == 30

\* width of the significand of a Python float (IEEE 754 binary64)
MantBits == 53

\* ------------------------------------------------------------------------
\* Python float arithmetic, as used by
\*     change_percent = ((new_price - old_price) / old_price) * 100
\* A float is [sign, exp, mant]: sign * 1.mant[2..53] * 2^exp, mant[1] = 1,
\* bits most significant first; sign = 0 is 0.0.
\* ------------------------------------------------------------------------
Abs(x) == IF x < 0 THEN -x ELSE x

Sgn(x) == IF x < 0 THEN -1 ELSE IF x > 0 THEN 1 ELSE 0

Max(S) == CHOOSE x \in S : \A y \in S : y <= x

FloatZero == [sign |-> 0, exp |-> 0, mant |-> <<>>]

\* exponent e of n/d: 2^e <= n/d < 2^(e+1), for n, d > 0
RECURSIVE DivExp(_, _, _)
DivExp(n, d, e) ==
    IF n < d THEN DivExp(2 * n, d, e - 1)
    ELSE IF n >= 2 * d THEN DivExp(n, 2 * d, e + 1)
    ELSE e

\* the scaled operands: n' / d' = (n/d) / 2^e lies in [1, 2)
RECURSIVE DivScale(_, _)
DivScale(n, d) ==
    IF n < d THEN DivScale(2 * n, d)
    ELSE IF n >= 2 * d THEN DivScale(n, 2 * d)
    ELSE <<n, d>>

\* 2^j mod d by repeated squaring (d < 2^15)
RECURSIVE Pow2Mod(_, _)
Pow2Mod(j, d) ==
    IF j = 0 THEN 1 % d
    ELSE LET h == Pow2Mod(j \div 2, d)
         IN  (h * h * (IF j % 2 = 1 THEN 2 ELSE 1)) % d

\* binary long division of r/d (r < d): the remainder after j quotient bits
DivRem(r, d, j) == (r * Pow2Mod(j, d)) % d

\* binary long division of r/d (r < d): the j-th quotient bit, j >= 1
DivBit(r, d, j) == IF 2 * DivRem(r, d, j - 1) >= d THEN 1 ELSE 0

\* bits + 1, bits most significant first; a carry out of the top gives a
\* sequence one longer
BitsInc(bits) ==
    LET zeros == {p \in 1..Len(bits) : bits[p] = 0} IN
    IF zeros = {} THEN <<1>> \o [q \in 1..Len(bits) |-> 0]
    ELSE [q \in 1..Len(bits) |->
             IF q < Max(zeros) THEN bits[q] ELSE IF q = Max(zeros) THEN 1 ELSE 0]

\* round-to-nearest, ties-to-even, of a bit string with at least MantBits
\* bits (leading bit 1) and a sticky flag for what lies beyond it
RoundBits(sign, exp, bits, sticky) ==
    LET head  == SubSeq(bits, 1, MantBits)
        tail  == SubSeq(bits, MantBits + 1, Len(bits))
        rnd   == IF tail = <<>> THEN 0 ELSE tail[1]
        rest  == sticky \/ \E q \in 2..Len(tail) : tail[q] = 1
        up    == rnd = 1 /\ (rest \/ head[MantBits] = 1)
        inc   == BitsInc(head)
    IN  IF ~up THEN [sign |-> sign, exp |-> exp, mant |-> head]
        ELSE IF Len(inc) > MantBits
             THEN [sign |-> sign, exp |-> exp + 1, mant |-> SubSeq(inc, 1, MantBits)]
             ELSE [sign |-> sign, exp |-> exp, mant |-> inc]

\* float(a) / float(d) for integers a and d > 0 (both below 2^14)
FloatDiv(a, d) ==
    IF a = 0 THEN FloatZero
    ELSE LET n  == Abs(a)
             e  == DivExp(n, d, 0)
             sc == DivScale(n, d)
             r  == sc[1] - sc[2]
             q  == [j \in 1..MantBits |-> DivBit(r, sc[2], j)]
         IN  RoundBits(Sgn(a), e, <<1>> \o q, DivRem(r, sc[2], MantBits) # 0)

\* the integer formed by the first n bits (n < 31), most significant first
RECURSIVE BitsToInt(_, _)
BitsToInt(bits, n) ==
    IF n = 0 THEN 0 ELSE 2 * BitsToInt(bits, n - 1) + bits[n]

\* number of bits of v > 0
RECURSIVE BitLen(_)
BitLen(v) == IF v = 0 THEN 0 ELSE 1 + BitLen(v \div 2)

\* the significand as 16-bit limbs, least significant limb first
LimbBits == 16

Limbs(mant) ==
    [q \in 0..3 |->
        LET hi == MantBits - LimbBits * q
            lo == IF hi - LimbBits + 1 < 1 THEN 1 ELSE hi - LimbBits + 1
        IN  BitsToInt(SubSeq(mant, lo, hi), hi - lo + 1)]

\* limbs * c for a small integer c > 0: limbs 0..2 reduced, limb 3 with the
\* final carry
MulLimbs(l, c) ==
    LET base == 2 ^ LimbBits
        v0 == l[0] * c
        v1 == l[1] * c + v0 \div base
        v2 == l[2] * c + v1 \div base
        v3 == l[3] * c + v2 \div base
    IN  [q \in 0..3 |-> IF q = 0 THEN v0 % base ELSE IF q = 1 THEN v1 % base
                        ELSE IF q = 2 THEN v2 % base ELSE v3]

\* f * float(c) for a small integer c > 0
FloatMulInt(f, c) ==
    IF f.sign = 0 THEN FloatZero
    ELSE LET p    == MulLimbs(Limbs(f.mant), c)
             len  == 3 * LimbBits + BitLen(p[3])
             prod == [m \in 1..len |->
                         LET j == len - m
                         IN  (p[j \div LimbBits] \div (2 ^ (j % LimbBits))) % 2]
         IN  RoundBits(f.sign, f.exp + (len - MantBits), prod, FALSE)

\* floor(abs(f)), capped at 2^30 (every threshold of the model is below it)
FloatFloorAbs(f) ==
    IF f.sign = 0 \/ f.exp < 0 THEN 0
    ELSE IF f.exp >= 30 THEN 2 ^ 30
    ELSE BitsToInt(f.mant, f.exp + 1)

\* f <= -float(t) for an integer t >= 0
FloatLeqNeg(f, t) ==
    IF t = 0 THEN f.sign <= 0
    ELSE f.sign = -1 /\ FloatFloorAbs(f) >= t

\* f > 0
FloatPositive(f) == f.sign = 1


\* ------------------------------------------------------------------------
\* State
\* ------------------------------------------------------------------------
VARIABLES
    db_trackings,   \* db.trackings: tracking id -> document (ProductTracking)
    db_users,       \* db.users: user id -> document (User)
    now,            \* datetime.utcnow()
    site,           \* the product dicts the scraped pages can yield
    pc,             \* check_prices: "idle", "loop" (for tracking in trackings), "send"
    trackings,      \* check_prices: the fetched batch (documents as read at fetch)
    idx,            \* check_prices: number of batch entries the loop has handled
    product_data,   \* check_prices: result of the last scrape_product call
    notifications,  \* check_prices: the accumulated events
    i,              \* send_batch_notifications: offset of the current batch
    k,              \* send_batch_notifications: entries of the batch handled
    timeline,       \* send_batch_notifications: its send_message calls and sleeps
    send_result,    \* send_batch_notifications: how the last send_message call ended
    reply,          \* the answer to the last /pause, /resume or /stop message
    listing,        \* the trackings the answer to the last message listed
    instances,      \* scheduler: running instances of the price_checker job
    url,            \* affiliate manager: the URL handed in
    platform,       \* affiliate manager: the platform argument of convert_to_affiliate
    detected,       \* affiliate manager: what detect_platform returned
    affiliate_url,  \* affiliate manager: what convert_to_affiliate returned
    mongo,          \* which MongoDB servers answer a ping, and whether a secondary is configured
    is_connected,   \* db_manager.is_connected
    scheduler_running, \* scheduler.start() has been called
    boot,           \* PriceTrackerBot.start: "off", "polling", or "failed" (startup raised)
    mongo_users,    \* MongoManager.users: user id -> document
    mongo_products, \* MongoManager.products: product id -> document
    mongo_alerts,   \* MongoManager.alerts: alert id -> document
    deleted_count   \* BotScheduler.cleanup_inactive_users: the count it printed last

vars == <<db_trackings, db_users, now, site, pc, trackings, idx,
          product_data, notifications, i, k, timeline, send_result, reply, listing,
          instances,
          url, platform, detected, affiliate_url,
          mongo, is_connected, scheduler_running, boot,
          mongo_users, mongo_products, mongo_alerts, deleted_count>>

dbVars    == <<db_trackings, db_users>>
cycleVars == <<pc, trackings, idx, product_data, notifications, instances>>
sendVars  == <<i, k, timeline, send_result>>
urlVars   == <<url, platform, detected, affiliate_url>>
startVars == <<mongo, is_connected, scheduler_running, boot>>
legacyVars == <<mongo_users, mongo_products, mongo_alerts, deleted_count>>

\* BotScheduler.cleanup_inactive_users has not run yet
NotCleaned == -1

\* the collections of MongoManager hold nothing
NoLegacyStore ==
    /\ mongo_users = <<>>
    /\ mongo_products = <<>>
    /\ mongo_alerts = <<>>
    /\ deleted_count = NotCleaned

\* no send_message call has ended since the last batch began
NotSent == "none"

\* detect_platform has not returned yet
NotDetected == "-"

\* convert_to_affiliate has not returned yet
NotConverted == <<"-">>

\* a deployment with one MongoDB server, which answers
PrimaryOnly == [primary_up |-> TRUE, secondary_uri |-> FALSE, secondary_up |-> FALSE]

\* on_startup has returned: the store is connected, the scheduler runs and
\* the dispatcher polls for messages
Started ==
    /\ mongo = PrimaryOnly
    /\ is_connected = TRUE
    /\ scheduler_running = TRUE
    /\ boot = "polling"

\* no affiliate manager call is going on
NoUrlCall ==
    /\ url = <<>>
    /\ platform = ""
    /\ detected = NotDetected
    /\ affiliate_url = NotConverted

\* tracking ids and user ids of the model
Ids   == {1, 2}
Users == {1, 2}

\* the user who submitted the URL of a tracking (ProductTracking.user_id)
Owner(id) == 1

\* BATCH_SIZE of the check cycle (environment variable, default 100)
CheckBatchSize == 2

AlertTypes == {"any_change", "percentage_drop", "fixed_price", "stock_alert"}

StockStatuses == {"in_stock", "out_of_stock"}

\* AlertSettings()
DefaultAlertSettings ==
    [alert_type |-> "any_change", threshold |-> None, enabled |-> TRUE,
     notify_on_stock |-> TRUE, notify_on_price_increase |-> FALSE]

AlertSettingsOver(thresholds) ==
    [alert_type : AlertTypes, threshold : thresholds, enabled : {TRUE},
     notify_on_stock : BOOLEAN, notify_on_price_increase : BOOLEAN]

\* the document process_product_url inserts for a scraped product
NewTracking(id, price, stock_status, settings) ==
    [id |-> id, user_id |-> Owner(id), current_price |-> price,
     alert_settings |-> settings,
     is_active |-> TRUE, is_paused |-> FALSE,
     price_history |-> <<[price |-> price, timestamp |-> 0,
                          stock_status |-> stock_status, discount |-> 0]>>,
     last_checked |-> None, last_alert_sent |-> None,
     check_count |-> 0, alert_count |-> 0]

NewUser(n) == [active_trackings |-> n, total_alerts_received |-> 0]

\* scrape_product: a product dict, a dict with 'error', or nothing
ScrapeFailures ==
    {[result |-> r, price |-> 0, stock_status |-> "in_stock", discount |-> 0] :
        r \in {"error", "none"}}

ScrapeProducts(prices, statuses) ==
    [result : {"ok"}, price : prices, stock_status : statuses, discount : {0}]

NoProductData == [result |-> "none", price |-> 0, stock_status |-> "in_stock", discount |-> 0]

\* ------------------------------------------------------------------------
\* DatabaseManager
\* ------------------------------------------------------------------------
\* update_data['updated_at'] = datetime.utcnow(), then
\* update_one({"_id": id}, {"$set": update_data}); no document with that
\* id: nothing is updated.  (Only cleanup_old_data reads updated_at: the
\* documents of the specifications without the cleanup job are kept without
\* that field, and the stamp goes to the documents that have it.)
update_tracking(db, tracking_id, update_data) ==
    IF tracking_id \notin DOMAIN db THEN db
    ELSE [db EXCEPT ![tracking_id] =
              [f \in DOMAIN @ |-> IF f \in DOMAIN update_data THEN update_data[f]
                                  ELSE IF f = "updated_at" THEN now
                                  ELSE @[f]]]

\* "$set": {"updated_at": datetime.utcnow()} on a document
stamp_updated_at(doc, t) ==
    [f \in DOMAIN doc |-> IF f = "updated_at" THEN t ELSE doc[f]]

update_tracking_price_keeps_current(db, tracking_id, new_price, stock_status, discount, t) ==
    IF tracking_id \notin DOMAIN db THEN db
    ELSE [db EXCEPT ![tracking_id] =
              [@ EXCEPT !.last_checked = t,
                        !.price_history = Append(@, [price |-> new_price, timestamp |-> t,
                                                     stock_status |-> stock_status,
                                                     discount |-> discount]),
                        !.check_count = @ + 1]]

update_tracking_price_no_count(db, tracking_id, new_price, stock_status, discount, t) ==
    IF tracking_id \notin DOMAIN db THEN db
    ELSE [db EXCEPT ![tracking_id] =
              [@ EXCEPT !.current_price = new_price,
                        !.last_checked = t,
                        !.price_history = Append(@, [price |-> new_price, timestamp |-> t,
                                                     stock_status |-> stock_status,
                                                     discount |-> discount])]]

\* an update that counts the check and keeps the history as it was
update_tracking_price_no_push(db, tracking_id, new_price, stock_status, discount, t) ==
    IF tracking_id \notin DOMAIN db THEN db
    ELSE [db EXCEPT ![tracking_id] =
              stamp_updated_at(
                  [@ EXCEPT !.current_price = new_price,
                            !.last_checked = t,
                            !.check_count = @ + 1], t)]

\* update_one with $set current_price, updated_at, last_checked, $push
\* price_history and $inc check_count
update_tracking_price(db, tracking_id, new_price, stock_status, discount, t) ==
    IF tracking_id \notin DOMAIN db THEN db
    ELSE [db EXCEPT ![tracking_id] =
              stamp_updated_at(
                  [@ EXCEPT !.current_price = new_price,
                            !.last_checked = t,
                            !.price_history = Append(@, [price |-> new_price, timestamp |-> t,
                                                         stock_status |-> stock_status,
                                                         discount |-> discount]),
                            !.check_count = @ + 1], t)]

pause_tracking(db, tracking_id) ==
    update_tracking(db, tracking_id, [is_paused |-> TRUE])

resume_tracking_reactivates(db, tracking_id) ==
    update_tracking(db, tracking_id, [is_paused |-> FALSE, is_active |-> TRUE])

resume_tracking(db, tracking_id) ==
    update_tracking(db, tracking_id, [is_paused |-> FALSE])

\* the tracking part of stop_tracking
stop_tracking(db, tracking_id) ==
    update_tracking(db, tracking_id, [is_active |-> FALSE])

\* the user-stats part of stop_tracking
stop_tracking_users(users, user_id) ==
    IF user_id \notin DOMAIN users THEN users
    ELSE [users EXCEPT ![user_id].active_trackings = @ - 1]

\* find({"is_active": True, "is_paused": False})
Eligible(db) == {id \in DOMAIN db : db[id].is_active /\ ~db[id].is_paused}

EligibleIgnoringPause(db) == {id \in DOMAIN db : db[id].is_active}

\* sort("last_checked", 1): a missing date sorts before every date
SortKey(doc) == doc.last_checked

IsSorted(db, s) ==
    \A a, b \in 1..Len(s) : a < b => SortKey(db[s[a]]) <= SortKey(db[s[b]])

\* the orders sort("last_checked", 1) can return for a set of documents
\* (documents with equal last_checked come in any order)
SortedOrders(db, ids) ==
    {s \in [1..Cardinality(ids) -> ids] :
        (\A a, b \in 1..Cardinality(ids) : a # b => s[a] # s[b]) /\ IsSorted(db, s)}

Min(a, b) == IF a < b THEN a ELSE b

get_trackings_to_check_ignoring_pause(db, limit) ==
    {[n \in 1..Min(limit, Len(s)) |-> db[s[n]]] :
        s \in SortedOrders(db, EligibleIgnoringPause(db))}

\* find() without the sort: the eligible documents in any order
get_trackings_to_check_unsorted(db, limit) ==
    {[n \in 1..Min(limit, Cardinality(Eligible(db))) |-> db[s[n]]] :
        s \in {t \in [1..Cardinality(Eligible(db)) -> Eligible(db)] :
                  \A a, b \in 1..Cardinality(Eligible(db)) : a # b => t[a] # t[b]}}

\* the possible results of get_trackings_to_check(limit): the first `limit`
\* documents of a sorted order of the eligible ones
get_trackings_to_check(db, limit) ==
    {[n \in 1..Min(limit, Len(s)) |-> db[s[n]]] : s \in SortedOrders(db, Eligible(db))}


\* ------------------------------------------------------------------------
\* Lifecycle commands (handlers/tracking_handler.py)
\* ------------------------------------------------------------------------
OwnedBy_any_sender(db, tracking_id, user_id) == tracking_id \in DOMAIN db

\* get_tracking_by_id found a document and it belongs to the sender
OwnedBy(db, tracking_id, user_id) ==
    tracking_id \in DOMAIN db /\ db[tracking_id].user_id = user_id

\* the answers of the lifecycle handlers
NoReply == ""

NotFound == "Product not found."

\* the answer lists no trackings
NoListing == [user_id |-> 0, ids |-> {}]

\* find(query): the documents of the user, the stopped ones left out with
\* active_only, the paused ones left out without include_paused
get_user_trackings(db, user_id, active_only, include_paused) ==
    {id \in DOMAIN db :
        /\ db[id].user_id = user_id
        /\ active_only => db[id].is_active
        /\ ~include_paused => ~db[id].is_paused}

\* /my_trackings: get_user_trackings with its defaults, active_only = True
\* and include_paused = False
cmd_my_trackings(user_id) ==
    LET found == get_user_trackings(db_trackings, user_id, TRUE, FALSE) IN
    /\ IF found = {}
       THEN /\ reply' = "No Tracked Products"
            /\ listing' = [user_id |-> user_id, ids |-> {}]
       ELSE /\ reply' = "Your Tracked Products"
            /\ listing' = [user_id |-> user_id, ids |-> found]
    /\ UNCHANGED <<dbVars, now, site, urlVars, startVars, legacyVars, cycleVars, sendVars>>

\* /pause <tracking_id>
cmd_pause_tracking(user_id, tracking_id) ==
    /\ IF OwnedBy(db_trackings, tracking_id, user_id)
       THEN /\ db_trackings' = pause_tracking(db_trackings, tracking_id)
            /\ reply' = "Tracking Paused"
       ELSE /\ db_trackings' = db_trackings
            /\ reply' = NotFound
    /\ listing' = NoListing
    /\ UNCHANGED <<db_users, now, site, urlVars, startVars, legacyVars, cycleVars, sendVars>>

\* /resume <tracking_id>
cmd_resume_tracking(user_id, tracking_id) ==
    /\ IF OwnedBy(db_trackings, tracking_id, user_id)
       THEN /\ db_trackings' = resume_tracking(db_trackings, tracking_id)
            /\ reply' = "Tracking Resumed"
       ELSE /\ db_trackings' = db_trackings
            /\ reply' = NotFound
    /\ listing' = NoListing
    /\ UNCHANGED <<db_users, now, site, urlVars, startVars, legacyVars, cycleVars, sendVars>>

\* /stop <tracking_id>
cmd_stop_tracking(user_id, tracking_id) ==
    /\ user_id \in DOMAIN db_users => db_users[user_id].active_trackings > -MaxOverStop
    /\ IF OwnedBy(db_trackings, tracking_id, user_id)
       THEN /\ db_trackings' = stop_tracking(db_trackings, tracking_id)
            /\ db_users' = stop_tracking_users(db_users, user_id)
            /\ reply' = "Tracking Stopped"
       ELSE /\ UNCHANGED dbVars
            /\ reply' = NotFound
    /\ listing' = NoListing
    /\ UNCHANGED <<now, site, urlVars, startVars, legacyVars, cycleVars, sendVars>>


\* ------------------------------------------------------------------------
\* The alert decision of check_prices (main.py, one iteration of the loop)
\* ------------------------------------------------------------------------
\* bool(x) of an Optional[float]
Truthy(x) == x # None /\ x # 0

\* if not product_data or 'error' in product_data
scrape_failed(pd) == pd.result = "none" \/ pd.result = "error"

\* scrape_product or update_tracking_price raising: the except clause of the
\* iteration logs the exception and the loop goes on with the next tracking
RaisedBeforeUpdate ==
    [result |-> "raise", price |-> 0, stock_status |-> "in_stock", discount |-> 0]

iteration_raised(pd) == pd.result = "raise"

\* the iteration is left before update_tracking_price has written
no_update(pd) == scrape_failed(pd) \/ iteration_raised(pd)

price_changed_drop_only(old_price, new_price) ==
    Truthy(old_price) /\ new_price < old_price

price_changed_ignores_equality(old_price, new_price) ==
    Truthy(old_price)

\* if old_price and new_price != old_price
price_changed(old_price, new_price) ==
    Truthy(old_price) /\ new_price # old_price

\* change_percent = ((new_price - old_price) / old_price) * 100
change_percent(old_price, new_price) ==
    FloatMulInt(FloatDiv(new_price - old_price, old_price), 100)

\* -alert_settings.threshold and new_price <= alert_settings.threshold raise
\* TypeError when the threshold is None
rule_raises(alert_settings) ==
    /\ alert_settings.alert_type \in {"percentage_drop", "fixed_price"}
    /\ alert_settings.threshold = None

rule_matches_strict(alert_settings, cp, new_price) ==
    CASE alert_settings.alert_type = "any_change" -> TRUE
      [] alert_settings.alert_type = "percentage_drop" ->
             FloatLeqNeg(cp, alert_settings.threshold)
      [] alert_settings.alert_type = "fixed_price" ->
             new_price < alert_settings.threshold
      [] OTHER -> FALSE

\* the if / elif chain over alert_settings.alert_type
rule_matches(alert_settings, cp, new_price) ==
    CASE alert_settings.alert_type = "any_change" -> TRUE
      [] alert_settings.alert_type = "percentage_drop" ->
             FloatLeqNeg(cp, alert_settings.threshold)
      [] alert_settings.alert_type = "fixed_price" ->
             new_price <= alert_settings.threshold
      [] OTHER -> FALSE

increase_suppressed_never(alert_settings, cp) == FALSE

\* if change_percent > 0 and not alert_settings.notify_on_price_increase
increase_suppressed(alert_settings, cp) ==
    FloatPositive(cp) /\ ~alert_settings.notify_on_price_increase

should_alert(alert_settings, cp, new_price) ==
    rule_matches(alert_settings, cp, new_price) /\ ~increase_suppressed(alert_settings, cp)

\* if product_data.get('stock_status') != 'in_stock' and notify_on_stock
stock_alert_due(pd, alert_settings) ==
    pd.stock_status # "in_stock" /\ alert_settings.notify_on_stock

price_alert(tracking, old_price, new_price, cp) ==
    [type |-> "price_alert", user_id |-> tracking.user_id, tracking |-> tracking,
     old_price |-> old_price, new_price |-> new_price, change_percent |-> cp,
     stock_status |-> ""]

stock_alert(tracking, stock_status) ==
    [type |-> "stock_alert", user_id |-> tracking.user_id, tracking |-> tracking,
     old_price |-> None, new_price |-> None, change_percent |-> FloatZero,
     stock_status |-> stock_status]

\* the stock rule inside the block of the price rule
events_of_check_stock_inside(tracking, pd) ==
    LET old_price == tracking.current_price
        new_price == pd.price
        settings  == tracking.alert_settings
    IN  IF ~price_changed(old_price, new_price) \/ rule_raises(settings)
        THEN <<>>
        ELSE (IF should_alert(settings, change_percent(old_price, new_price), new_price)
              THEN <<price_alert(tracking, old_price, new_price,
                                 change_percent(old_price, new_price))>>
              ELSE <<>>)
             \o
             (IF stock_alert_due(pd, settings)
              THEN <<stock_alert(tracking, pd.stock_status)>>
              ELSE <<>>)

\* the stock rule is applied before the price rule
events_of_check_stock_first(tracking, pd) ==
    LET old_price == tracking.current_price
        new_price == pd.price
        settings  == tracking.alert_settings
    IN  IF price_changed(old_price, new_price) /\ rule_raises(settings)
        THEN <<>>
        ELSE (IF stock_alert_due(pd, settings)
              THEN <<stock_alert(tracking, pd.stock_status)>>
              ELSE <<>>)
             \o
             (IF price_changed(old_price, new_price)
                 /\ should_alert(settings, change_percent(old_price, new_price), new_price)
              THEN <<price_alert(tracking, old_price, new_price,
                                 change_percent(old_price, new_price))>>
              ELSE <<>>)

\* the events one iteration appends for a successfully scraped product: the
\* price rule, then the stock rule; an exception in the price rule leaves
\* the iteration before the stock rule
events_of_check(tracking, pd) ==
    LET old_price == tracking.current_price
        new_price == pd.price
        settings  == tracking.alert_settings
    IN  IF price_changed(old_price, new_price) /\ rule_raises(settings)
        THEN <<>>
        ELSE (IF price_changed(old_price, new_price)
                 /\ should_alert(settings, change_percent(old_price, new_price), new_price)
              THEN <<price_alert(tracking, old_price, new_price,
                                 change_percent(old_price, new_price))>>
              ELSE <<>>)
             \o
             (IF stock_alert_due(pd, settings)
              THEN <<stock_alert(tracking, pd.stock_status)>>
              ELSE <<>>)

db_after_check_stamps_failure(db, tracking, pd, t) ==
    IF scrape_failed(pd) THEN update_tracking(db, tracking.id, [last_checked |-> t])
    ELSE update_tracking_price(db, tracking.id, pd.price, pd.stock_status, pd.discount, t)

\* the iteration writes the whole document back from the copy it fetched
db_after_check_writes_copy(db, tracking, pd, t) ==
    IF no_update(pd) THEN db
    ELSE LET own == [id \in {tracking.id} |-> tracking]
         IN  [db EXCEPT ![tracking.id] =
                 update_tracking_price(own, tracking.id, pd.price, pd.stock_status,
                                       pd.discount, t)[tracking.id]]

\* the store after one iteration
db_after_check(db, tracking, pd, t) ==
    IF no_update(pd) THEN db
    ELSE update_tracking_price(db, tracking.id, pd.price, pd.stock_status, pd.discount, t)

\* the event list after one iteration
notifications_after_check(events, tracking, pd) ==
    IF no_update(pd) THEN events
    ELSE events \o events_of_check(tracking, pd)

\* ------------------------------------------------------------------------
\* check_prices (main.py)
\* ------------------------------------------------------------------------
max_instances_two == 1 + 1

\* scheduler.add_job(self.check_prices, ...) sets no max_instances: the job
\* runs with the scheduler's default of one running instance
max_instances == 1

\* the interval trigger of the price_checker job fires: the scheduler skips
\* the run while max_instances runs are in progress; else check_prices is
\* entered: fetch the batch; nothing to check: return
StartCheck ==
    /\ scheduler_running
    /\ now < MaxTime
    /\ IF instances >= max_instances
       THEN UNCHANGED cycleVars
       ELSE \E batch \in get_trackings_to_check(db_trackings, CheckBatchSize) :
              IF batch = <<>>
              THEN UNCHANGED cycleVars
              ELSE /\ instances' = instances + 1
                   /\ pc' = "loop"
                   /\ trackings' = batch
                   /\ idx' = 0
                   /\ notifications' = <<>>
                   /\ product_data' = NoProductData
    /\ UNCHANGED <<dbVars, now, site, urlVars, startVars, legacyVars, reply, listing, sendVars>>

\* check_prices returns: its locals are gone
Return ==
    /\ instances' = instances - 1
    /\ pc' = "idle"
    /\ trackings' = <<>>
    /\ idx' = 0
    /\ product_data' = NoProductData
    /\ notifications' = <<>>

\* an exception in an iteration ends the whole run
CheckTracking_failure_aborts ==
    /\ pc = "loop"
    /\ idx < Len(trackings)
    /\ \E pd \in ScrapeFailures \cup site :
         LET tracking == trackings[idx + 1] IN
         /\ no_update(pd) \/ now < MaxTime
         /\ db_trackings' = db_after_check(db_trackings, tracking, pd, now)
         /\ now' = IF no_update(pd) THEN now ELSE now + 1
         /\ IF iteration_raised(pd)
            THEN Return
            ELSE /\ product_data' = pd
                 /\ notifications' = notifications_after_check(notifications, tracking, pd)
                 /\ idx' = idx + 1
                 /\ UNCHANGED <<pc, trackings, instances>>
    /\ UNCHANGED <<db_users, site, urlVars, startVars, legacyVars, reply, listing, sendVars>>

\* one iteration of `for tracking in trackings`
CheckTracking ==
    /\ pc = "loop"
    /\ idx < Len(trackings)
    /\ \E pd \in ScrapeFailures \cup site :
         LET tracking == trackings[idx + 1] IN
         /\ no_update(pd) \/ now < MaxTime
         /\ product_data' = pd
         /\ db_trackings' = db_after_check(db_trackings, tracking, pd, now)
         /\ notifications' = notifications_after_check(notifications, tracking, pd)
         /\ now' = IF no_update(pd) THEN now ELSE now + 1
    /\ idx' = idx + 1
    /\ UNCHANGED <<db_users, site, urlVars, startVars, legacyVars, reply, listing, pc, trackings, instances, sendVars>>

\* the events are handed over while trackings of the batch are still waiting
EndLoop_before_loop_ends ==
    /\ pc = "loop"
    /\ idx > 0
    /\ IF notifications # <<>>
       THEN /\ pc' = "send"
            /\ i' = 0
            /\ k' = 0
            /\ timeline' = <<>>
            /\ send_result' = NotSent
            /\ UNCHANGED <<trackings, idx, product_data, notifications, instances>>
       ELSE /\ idx = Len(trackings)
            /\ Return
            /\ UNCHANGED sendVars
    /\ UNCHANGED <<dbVars, now, site, urlVars, startVars, legacyVars, reply, listing>>

\* after the loop: hand the events to the notifier, or finish
EndLoop ==
    /\ pc = "loop"
    /\ idx = Len(trackings)
    /\ IF notifications # <<>>
       THEN /\ pc' = "send"
            /\ i' = 0
            /\ k' = 0
            /\ timeline' = <<>>
            /\ send_result' = NotSent
            /\ UNCHANGED <<trackings, idx, product_data, notifications, instances>>
       ELSE /\ Return
            /\ UNCHANGED sendVars
    /\ UNCHANGED <<dbVars, now, site, urlVars, startVars, legacyVars, reply, listing>>

\* ------------------------------------------------------------------------
\* Notifier.send_batch_notifications (notifications/notifier.py)
\* ------------------------------------------------------------------------
\* batch = notifications[i:i + self.batch_size]
Batch(events, offset) ==
    SubSeq(events, offset + 1, Min(offset + batch_size, Len(events)))

SendEntry(offset, n) == [op |-> "send_message", batch |-> offset, n |-> n, ms |-> 0]

SleepEntry(offset, ms) == [op |-> "sleep", batch |-> offset, n |-> 0, ms |-> ms]

\* bot.send_message: returned (the channel accepted the message) or raised
send_message(delivered) == IF delivered THEN "delivered" ELSE "failed"

\* a send_price_alert that counts from one whatever the document says
send_price_alert_tracking_restarts_count(db, notification, t) ==
    update_tracking(db, notification.tracking.id,
                    [last_alert_sent |-> t, alert_count |-> 1])

\* send_price_alert after a successful send_message: the tracking stats
send_price_alert_tracking(db, notification, t) ==
    update_tracking(db, notification.tracking.id,
                    [last_alert_sent |-> t,
                     alert_count |-> notification.tracking.alert_count + 1])

\* send_price_alert after a successful send_message: the user stats
send_price_alert_users(users, notification) ==
    IF notification.user_id \notin DOMAIN users THEN users
    ELSE [users EXCEPT ![notification.user_id].total_alerts_received = @ + 1]

SendNotification_failure_ends_call ==
    /\ pc = "send"
    /\ i < Len(notifications)
    /\ k < Len(Batch(notifications, i))
    /\ LET notification == Batch(notifications, i)[k + 1] IN
       \E delivered \in BOOLEAN :
         /\ IF delivered /\ notification.type = "price_alert"
            THEN /\ db_trackings' = send_price_alert_tracking(db_trackings, notification, now)
                 /\ db_users' = send_price_alert_users(db_users, notification)
            ELSE UNCHANGED dbVars
         /\ send_result' = send_message(delivered)
         /\ IF delivered
            THEN /\ timeline' = timeline \o <<SendEntry(i, i + k + 1), SleepEntry(i, 50)>>
                 /\ k' = k + 1
                 /\ i' = i
            ELSE /\ timeline' = Append(timeline, SendEntry(i, i + k + 1))
                 /\ k' = 0
                 /\ i' = Len(notifications)
    /\ UNCHANGED <<now, site, urlVars, startVars, legacyVars, reply, listing, cycleVars>>

SendNotification_counts_before_send ==
    /\ pc = "send"
    /\ i < Len(notifications)
    /\ k < Len(Batch(notifications, i))
    /\ LET notification == Batch(notifications, i)[k + 1] IN
       \E delivered \in BOOLEAN :
         /\ IF notification.type = "price_alert"
            THEN /\ db_trackings' = send_price_alert_tracking(db_trackings, notification, now)
                 /\ db_users' = send_price_alert_users(db_users, notification)
            ELSE UNCHANGED dbVars
         /\ send_result' = send_message(delivered)
    /\ timeline' = timeline \o <<SendEntry(i, i + k + 1), SleepEntry(i, 50)>>
    /\ k' = k + 1
    /\ UNCHANGED <<now, site, urlVars, startVars, legacyVars, reply, listing, cycleVars, i>>

\* one iteration of `for notification in batch`: the send, which the channel
\* accepts or fails, then the pacing sleep
SendNotification ==
    /\ pc = "send"
    /\ i < Len(notifications)
    /\ k < Len(Batch(notifications, i))
    /\ LET notification == Batch(notifications, i)[k + 1] IN
       \E delivered \in BOOLEAN :
         /\ IF delivered /\ notification.type = "price_alert"
            THEN /\ db_trackings' = send_price_alert_tracking(db_trackings, notification, now)
                 /\ db_users' = send_price_alert_users(db_users, notification)
            ELSE UNCHANGED dbVars
         /\ send_result' = send_message(delivered)
    /\ timeline' = timeline \o <<SendEntry(i, i + k + 1), SleepEntry(i, 50)>>
    /\ k' = k + 1
    /\ UNCHANGED <<now, site, urlVars, startVars, legacyVars, reply, listing, cycleVars, i>>

\* the next batch begins at once
NextBatch_without_delay ==
    /\ pc = "send"
    /\ i < Len(notifications)
    /\ k = Len(Batch(notifications, i))
    /\ i' = i + batch_size
    /\ k' = 0
    /\ send_result' = NotSent
    /\ UNCHANGED <<dbVars, now, site, urlVars, startVars, legacyVars, reply, listing, cycleVars, timeline>>

\* end of a batch: sleep when another batch follows, then the next batch
NextBatch ==
    /\ pc = "send"
    /\ i < Len(notifications)
    /\ k = Len(Batch(notifications, i))
    /\ timeline' = IF i + batch_size < Len(notifications)
                   THEN Append(timeline, SleepEntry(i, 1000))
                   ELSE timeline
    /\ i' = i + batch_size
    /\ k' = 0
    /\ send_result' = NotSent
    /\ UNCHANGED <<dbVars, now, site, urlVars, startVars, legacyVars, reply, listing, cycleVars>>

\* the loop over the batches is over: check_prices returns
FinishSend ==
    /\ pc = "send"
    /\ i >= Len(notifications)
    /\ Return
    /\ i' = 0
    /\ k' = 0
    /\ timeline' = <<>>
    /\ send_result' = NotSent
    /\ UNCHANGED <<dbVars, now, site, urlVars, startVars, legacyVars, reply, listing>>

\* ------------------------------------------------------------------------
\* Python strings, as sequences of one-character strings
\* ------------------------------------------------------------------------
Chars(str) == [n \in 1..Len(str) |-> SubSeq(str, n, n)]

Range(s) == {s[n] : n \in 1..Len(s)}

UpperCase == Chars("ABCDEFGHIJKLMNOPQRSTUVWXYZ")

LowerCase == Chars("abcdefghijklmnopqrstuvwxyz")

Digits == Chars("0123456789")

\* str.lower()
lower(s) ==
    [n \in 1..Len(s) |->
        IF s[n] \in Range(UpperCase)
        THEN LowerCase[CHOOSE m \in 1..Len(UpperCase) : UpperCase[m] = s[n]]
        ELSE s[n]]

\* the first index from `from` on at which s has character c; 0: none
Find(s, c, from) ==
    LET hits == {n \in from..Len(s) : s[n] = c}
    IN  IF hits = {} THEN 0 ELSE CHOOSE n \in hits : \A m \in hits : n <= m

\* the last index at which s has character c; 0: none
RFind(s, c) ==
    LET hits == {n \in 1..Len(s) : s[n] = c}
    IN  IF hits = {} THEN 0 ELSE CHOOSE n \in hits : \A m \in hits : n >= m

\* re.search(p, s) for a pattern p that matches one literal text
re_search(p, s) ==
    \E n \in 1..(Len(s) - Len(p) + 1) : SubSeq(s, n, n + Len(p) - 1) = p

\* s.split(sep) for a one-character separator
split(s, sep) ==
    LET cuts   == {n \in 1..Len(s) : s[n] = sep}
        cut(m) == IF m = 0 THEN 0
                  ELSE IF m = Cardinality(cuts) + 1 THEN Len(s) + 1
                  ELSE CHOOSE n \in cuts : Cardinality({q \in cuts : q <= n}) = m
    IN  [m \in 1..(Cardinality(cuts) + 1) |-> SubSeq(s, cut(m - 1) + 1, cut(m) - 1)]

\* sep.join(parts)
RECURSIVE join(_, _)
join(sep, parts) ==
    IF parts = <<>> THEN <<>>
    ELSE IF Len(parts) = 1 THEN parts[1]
    ELSE parts[1] \o sep \o join(sep, Tail(parts))

\* ------------------------------------------------------------------------
\* urllib.parse as the affiliate manager uses it
\* ------------------------------------------------------------------------
Letters == Range(UpperCase) \cup Range(LowerCase)

scheme_chars == Letters \cup Range(Digits) \cup {"+", "-", "."}

\* the characters 0x20 .. 0x7E in code order (the grave accent, 0x60, by name)
Ascii ==
    Chars(" !\"#$%&'()*+,-./0123456789:;<=>?@ABCDEFGHIJKLMNOPQRSTUVWXYZ[\\]^_")
    \o <<"grave">>
    \o Chars("abcdefghijklmnopqrstuvwxyz{|}~")

HexDigits == Chars("0123456789ABCDEF")

HexValue(c) ==
    LET d == lower(<<c>>)[1]
        h == lower(HexDigits)
    IN  IF d \in Range(h) THEN (CHOOSE n \in 1..16 : h[n] = d) - 1 ELSE None

uses_params ==
    {Chars(x) : x \in {"", "ftp", "hdl", "prospero", "http", "imap", "https", "shttp",
                        "rtsp", "rtspu", "sip", "sips", "mms", "sftp", "tel"}}

uses_netloc ==
    {Chars(x) : x \in {"", "ftp", "http", "gopher", "nntp", "telnet", "imap", "wais",
                        "file", "mms", "https", "shttp", "snews", "prospero", "rtsp",
                        "rtspu", "rsync", "svn", "svn+ssh", "sftp", "nfs", "git",
                        "git+ssh", "ws", "wss"}}

FindAny(s, cs, from) ==
    LET hits == {n \in from..Len(s) : s[n] \in cs}
    IN  IF hits = {} THEN 0 ELSE CHOOSE n \in hits : \A m \in hits : n <= m

\* s[:n - 1] and s[n + 1:] for an index n of s; no index (0): s and ''
partition_at(s, n) ==
    [head |-> IF n = 0 THEN s ELSE SubSeq(s, 1, n - 1),
     tail |-> IF n = 0 THEN <<>> ELSE SubSeq(s, n + 1, Len(s))]

\* s.split(c, 1), with '' for a second part that is missing
partition(s, c) == partition_at(s, Find(s, c, 1))

\* urlsplit: the scheme before the first colon (at index colon), if it is one
split_scheme(u, colon) ==
    IF /\ colon > 1
       /\ u[1] \in Letters
       /\ \A n \in 1..(colon - 1) : u[n] \in scheme_chars
    THEN [scheme |-> lower(SubSeq(u, 1, colon - 1)), url |-> SubSeq(u, colon + 1, Len(u))]
    ELSE [scheme |-> <<>>, url |-> u]

\* _splitnetloc(url, 2) for a delimiter found at index delim (0: none)
splitnetloc_at(u, delim) ==
    IF delim = 0 THEN [netloc |-> SubSeq(u, 3, Len(u)), url |-> <<>>]
    ELSE [netloc |-> SubSeq(u, 3, delim - 1), url |-> SubSeq(u, delim, Len(u))]

\* urlsplit: if url[:2] == '//': netloc, url = _splitnetloc(url, 2)
splitnetloc(u) ==
    IF Len(u) >= 2 /\ SubSeq(u, 1, 2) = Chars("//")
    THEN splitnetloc_at(u, FindAny(u, {"/", "?", "#"}, 3))
    ELSE [netloc |-> <<>>, url |-> u]

\* urlparse: if scheme in uses_params and ';' in url: _splitparams(url)
splitparams(scheme, u) ==
    IF scheme \notin uses_params THEN partition_at(u, 0)
    ELSE IF RFind(u, "/") > 0 THEN partition_at(u, Find(u, ";", RFind(u, "/")))
    ELSE partition_at(u, Find(u, ";", 1))

\* urlparse(url): scheme, netloc, path, params, query, fragment
urlparse(u) ==
    LET with_scheme   == split_scheme(u, Find(u, ":", 1))
        with_netloc   == splitnetloc(with_scheme.url)
        with_fragment == partition(with_netloc.url, "#")
        with_query    == partition(with_fragment.head, "?")
        with_params   == splitparams(with_scheme.scheme, with_query.head)
    IN  [scheme   |-> with_scheme.scheme,
         netloc   |-> with_netloc.netloc,
         path     |-> with_params.head,
         params   |-> with_params.tail,
         query    |-> with_query.tail,
         fragment |-> with_fragment.tail]

\* urlsplit raises ValueError("Invalid IPv6 URL")
urlparse_raises(u) ==
    ("[" \in Range(urlparse(u).netloc)) # ("]" \in Range(urlparse(u).netloc))

\* one piece of text.split('%') after the first: two hex digits give the
\* character with that code, anything else stays as it is
unquote_bit(bit) ==
    IF /\ Len(bit) >= 2
       /\ HexValue(bit[1]) # None
       /\ HexValue(bit[2]) # None
       /\ 16 * HexValue(bit[1]) + HexValue(bit[2]) \in 32..126
    THEN <<Ascii[16 * HexValue(bit[1]) + HexValue(bit[2]) - 31]>> \o SubSeq(bit, 3, Len(bit))
    ELSE <<"%">> \o bit

\* unquote(text.replace('+', ' '))
unquote_plus(text) ==
    LET spaced == [n \in 1..Len(text) |-> IF text[n] = "+" THEN " " ELSE text[n]]
        bits   == split(spaced, "%")
    IN  bits[1] \o join(<<>>, [n \in 1..(Len(bits) - 1) |-> unquote_bit(bits[n + 1])])

always_safe == Letters \cup Range(Digits) \cup {"_", ".", "-", "~"}

\* quote_plus(text)
quote_plus(text) ==
    LET code(c) == 31 + CHOOSE n \in 1..Len(Ascii) : Ascii[n] = c
        enc(c)  == IF c \in always_safe THEN <<c>>
                   ELSE IF c = " " THEN <<"+">>
                   ELSE <<"%", HexDigits[(code(c) \div 16) + 1], HexDigits[(code(c) % 16) + 1]>>
    IN  join(<<>>, [n \in 1..Len(text) |-> enc(text[n])])

\* parse_qsl(qs): the (name, value) pairs of a query string; empty pieces,
\* pieces without "=" and pieces with a blank value are skipped
RECURSIVE parse_qsl_pairs(_)
parse_qsl_pairs(pieces) ==
    IF pieces = <<>> THEN <<>>
    ELSE LET name_value == Head(pieces)
             eq         == Find(name_value, "=", 1)
             name       == SubSeq(name_value, 1, eq - 1)
             value      == SubSeq(name_value, eq + 1, Len(name_value))
         IN  IF name_value = <<>> \/ eq = 0 \/ value = <<>>
             THEN parse_qsl_pairs(Tail(pieces))
             ELSE <<<<unquote_plus(name), unquote_plus(value)>>>>
                  \o parse_qsl_pairs(Tail(pieces))

parse_qsl(qs) == IF qs = <<>> THEN <<>> ELSE parse_qsl_pairs(split(qs, "&"))

\* a dict, as the sequence of its items in insertion order
dict_keys(d) == {d[n].key : n \in 1..Len(d)}

dict_get(d, key) == d[CHOOSE n \in 1..Len(d) : d[n].key = key].values

\* d[key] = values appended to the end as a further item
dict_set_appends(d, key, values) == Append(d, [key |-> key, values |-> values])

\* d[key] = values
dict_set(d, key, values) ==
    IF key \in dict_keys(d)
    THEN [n \in 1..Len(d) |-> IF d[n].key = key THEN [key |-> key, values |-> values] ELSE d[n]]
    ELSE Append(d, [key |-> key, values |-> values])

\* d.pop(key, None)
dict_pop(d, key) == SelectSeq(d, LAMBDA item : item.key # key)

\* parse_qs(qs): name -> the list of its values
RECURSIVE parse_qs_fold(_, _)
parse_qs_fold(pairs, parsed_result) ==
    IF pairs = <<>> THEN parsed_result
    ELSE LET name  == Head(pairs)[1]
             value == Head(pairs)[2]
         IN  parse_qs_fold(Tail(pairs),
                 IF name \in dict_keys(parsed_result)
                 THEN dict_set(parsed_result, name, Append(dict_get(parsed_result, name), value))
                 ELSE dict_set(parsed_result, name, <<value>>))

parse_qs(qs) == parse_qs_fold(parse_qsl(qs), <<>>)

\* urlencode(query, doseq=True) for a dict of lists
urlencode(query) ==
    LET item(n) == [m \in 1..Len(query[n].values) |->
                       quote_plus(query[n].key) \o <<"=">> \o quote_plus(query[n].values[m])]
    IN  join(<<"&">>, join(<<>>, [n \in 1..Len(query) |-> item(n)]))

\* urlunparse((scheme, netloc, path, params, query, fragment))
urlunparse(scheme, netloc, path, params, query, fragment) ==
    LET url1 == IF params # <<>> THEN path \o <<";">> \o params ELSE path
        url2 == IF \/ netloc # <<>>
                   \/ /\ scheme # <<>>
                      /\ scheme \in uses_netloc
                      /\ ~(Len(url1) >= 2 /\ SubSeq(url1, 1, 2) = Chars("//"))
                THEN Chars("//") \o netloc
                     \o (IF url1 # <<>> /\ url1[1] # "/" THEN <<"/">> ELSE <<>>) \o url1
                ELSE url1
        url3 == IF scheme # <<>> THEN scheme \o <<":">> \o url2 ELSE url2
        url4 == IF query # <<>> THEN url3 \o <<"?">> \o query ELSE url3
    IN  IF fragment # <<>> THEN url4 \o <<"#">> \o fragment ELSE url4

\* ------------------------------------------------------------------------
\* AffiliateManager (utils/affiliate_manager.py)
\* ------------------------------------------------------------------------
\* the keys of platform_patterns, in the order of the dict
Platforms == <<"amazon", "flipkart", "myntra", "meesho", "snapdeal", "ebay">>

\* the texts the domain patterns match (every dot is escaped)
platform_patterns ==
    [amazon   |-> <<"amazon.in", "amazon.com", "amzn.to", "amzn.in">>,
     flipkart |-> <<"flipkart.com", "fkrt.it">>,
     myntra   |-> <<"myntra.com">>,
     meesho   |-> <<"meesho.com">>,
     snapdeal |-> <<"snapdeal.com">>,
     ebay     |-> <<"ebay.in", "ebay.com">>]

\* the platform argument None / the result None
NoPlatform == ""

\* some pattern of the platform is found in the text
pattern_found(p, text) ==
    \E n \in 1..Len(platform_patterns[p]) :
        re_search(Chars(platform_patterns[p][n]), text)

\* the first platform, in dict order, one of whose patterns is found anywhere
\* in the lower-cased URL
detect_platform(u) ==
    LET url_lower == lower(u)
        hits      == {m \in 1..Len(Platforms) : pattern_found(Platforms[m], url_lower)}
    IN  IF hits = {} THEN NoPlatform
        ELSE Platforms[CHOOSE m \in hits : \A q \in hits : m <= q]

\* affiliate_config: the tag and the parameter name of each platform
affiliate_config ==
    [amazon   |-> [tag |-> "yourtag-21",       param_name |-> "tag"],
     flipkart |-> [tag |-> "youraffid",        param_name |-> "affid"],
     myntra   |-> [tag |-> "your_myntra_id",   param_name |-> "affid"],
     meesho   |-> [tag |-> "your_meesho_id",   param_name |-> "aff_id"],
     snapdeal |-> [tag |-> "your_snapdeal_id", param_name |-> "aff_id"],
     ebay     |-> [tag |-> "your_ebay_campid", param_name |-> "campid"]]

\* the tracking parameters _convert_amazon removes
params_to_remove == <<"qid", "sr", "ref", "pd_rd_w", "pd_rd_r", "pd_rd_wg">>

RECURSIVE pop_all(_, _)
pop_all(d, params) ==
    IF params = <<>> THEN d
    ELSE pop_all(dict_pop(d, Chars(Head(params))), Tail(params))

\* _convert_flipkart, _convert_myntra, _convert_meesho, _convert_snapdeal and
\* _convert_ebay: the same body
convert_with_config(u, config) ==
    LET parsed       == urlparse(u)
        query_params == dict_set(parse_qs(parsed.query),
                                 Chars(config.param_name), <<Chars(config.tag)>>)
        new_query    == urlencode(query_params)
    IN  urlunparse(parsed.scheme, parsed.netloc, parsed.path, parsed.params,
                   new_query, <<>>)

convert_amazon(u, config) ==
    LET parsed       == urlparse(u)
        query_params == pop_all(dict_set(parse_qs(parsed.query),
                                         Chars(config.param_name), <<Chars(config.tag)>>),
                                params_to_remove)
        new_query    == urlencode(query_params)
    IN  urlunparse(parsed.scheme, parsed.netloc, parsed.path, parsed.params,
                   new_query, <<>>)

\* convert_to_affiliate(url, platform); an exception gives the URL back
convert_to_affiliate(u, platform_arg) ==
    LET p == IF platform_arg = NoPlatform THEN detect_platform(u) ELSE platform_arg
    IN  IF p = NoPlatform THEN u
        ELSE IF p \notin DOMAIN affiliate_config THEN u
        ELSE IF urlparse_raises(u) THEN u
        ELSE IF p = "amazon" THEN convert_amazon(u, affiliate_config[p])
        ELSE convert_with_config(u, affiliate_config[p])

\* ------------------------------------------------------------------------
\* Specifications
\* ------------------------------------------------------------------------
\* an id no tracking has
MissingId == 0

\* a /pause, /resume or /stop message of one of the users about one of the ids
Commands(users, ids) ==
    \E user_id \in users, tracking_id \in ids :
        \/ cmd_pause_tracking(user_id, tracking_id)
        \/ cmd_resume_tracking(user_id, tracking_id)
        \/ cmd_stop_tracking(user_id, tracking_id)

\* the users who own a tracking
Owners == {Owner(id) : id \in Ids}

\* a message of an owner about a tracking that exists: the messages that can
\* change the store
Command == Commands(Owners, Ids)

\* a message of any user about any id, other users' trackings and unknown
\* ids included
AnyCommand == Commands(Users, Ids \cup {MissingId})

Dispatch == SendNotification \/ NextBatch \/ FinishSend

Cycle == StartCheck \/ CheckTracking \/ EndLoop

Next == Command \/ Cycle \/ Dispatch

CountOwned(db, user_id) == Cardinality({id \in DOMAIN db : db[id].user_id = user_id})

BotIdle ==
    /\ now = 0
    /\ pc = "idle"
    /\ trackings = <<>>
    /\ idx = 0
    /\ product_data = NoProductData
    /\ notifications = <<>>
    /\ i = 0
    /\ k = 0
    /\ timeline = <<>>
    /\ send_result = NotSent
    /\ reply = NoReply
    /\ listing = NoListing
    /\ instances = 0
    /\ NoUrlCall

\* as BotIdle, and the collections of the legacy MongoManager are empty
InitIdle ==
    /\ BotIdle
    /\ NoLegacyStore

\* the product pages of the lifecycle / check-cycle model
MainSite ==
    {[result |-> "ok", price |-> 100, stock_status |-> "in_stock", discount |-> 0],
     [result |-> "ok", price |-> 71, stock_status |-> "out_of_stock", discount |-> 0]}

\* two trackings of one user, as process_product_url created them
Init ==
    /\ InitIdle
    /\ Started
    /\ site = MainSite
    /\ db_trackings = [id \in Ids |-> NewTracking(id, 100, "in_stock", DefaultAlertSettings)]
    /\ db_users = [u \in Users |-> NewUser(CountOwned(db_trackings, u))]

Spec == Init /\ [][Next]_vars


\* ------------------------------------------------------------------------
\* SpecEval: one tracking with any alert configuration, checked once
\* ------------------------------------------------------------------------
EvalOldPrices == {0, 100, 1000}

EvalNewPrices == {0, 71, 100, 129, 940, 950, 960, 1000}

EvalThresholds == {None, 5, 29, 950}

\* the clock leaves room for one successful check
InitEval ==
    /\ now = MaxTime - 1
    /\ pc = "idle"
    /\ trackings = <<>>
    /\ idx = 0
    /\ product_data = NoProductData
    /\ notifications = <<>>
    /\ i = 0
    /\ k = 0
    /\ timeline = <<>>
    /\ send_result = NotSent
    /\ reply = NoReply
    /\ listing = NoListing
    /\ instances = 0
    /\ NoUrlCall
    /\ NoLegacyStore
    /\ Started
    /\ site = ScrapeProducts(EvalNewPrices, StockStatuses)
    /\ db_trackings \in
         {[id \in {1} |-> NewTracking(id, p, "in_stock", s)] :
              p \in EvalOldPrices, s \in AlertSettingsOver(EvalThresholds)}
    /\ db_users = [u \in Users |-> NewUser(CountOwned(db_trackings, u))]

SpecEval == InitEval /\ [][Cycle \/ Dispatch]_vars

\* ------------------------------------------------------------------------
\* SpecDispatch: send_batch_notifications with up to MaxEvents events
\* ------------------------------------------------------------------------
\* what the check of tracking id found: the first product possibly cheaper,
\* every product out of stock
DispatchProduct(id, cheaper) ==
    [result |-> "ok", price |-> IF cheaper /\ id = 1 THEN 71 ELSE 100,
     stock_status |-> "out_of_stock", discount |-> 0]

\* the state check_prices is in when it calls send_batch_notifications after
\* a cycle over m trackings
InitDispatch ==
    \E m \in 1..(MaxEvents - 1), cheaper \in BOOLEAN :
        LET db0   == [id \in 1..m |-> NewTracking(id, 100, "in_stock", DefaultAlertSettings)]
            batch == [n \in 1..m |-> db0[n]]
            ev(n) == events_of_check(batch[n], DispatchProduct(n, cheaper))
            total == IF cheaper THEN m + 1 ELSE m
        IN  /\ db_trackings =
                 [id \in 1..m |->
                     update_tracking_price(db0, id, DispatchProduct(id, cheaper).price,
                                           "out_of_stock", 0, id - 1)[id]]
            /\ db_users = [u \in Users |-> NewUser(CountOwned(db0, u))]
            /\ now = m
            /\ site = {DispatchProduct(id, cheaper) : id \in 1..m}
            /\ pc = "send"
            /\ trackings = batch
            /\ idx = m
            /\ product_data = DispatchProduct(m, cheaper)
            /\ notifications =
                 [n \in 1..total |->
                     IF cheaper THEN (IF n <= 2 THEN ev(1)[n] ELSE ev(n - 1)[1])
                     ELSE ev(n)[1]]
            /\ i = 0
            /\ k = 0
            /\ timeline = <<>>
            /\ send_result = NotSent
            /\ reply = NoReply
            /\ listing = NoListing
            /\ instances = 1
            /\ NoUrlCall
            /\ NoLegacyStore
            /\ Started

SpecDispatch == InitDispatch /\ [][Dispatch]_vars


\* ------------------------------------------------------------------------
\* Properties
\* ------------------------------------------------------------------------
Stopped(db) == {id \in DOMAIN db : ~db[id].is_active}

BatchIds(batch) == {batch[n].id : n \in 1..Len(batch)}

\* C1: once a tracking is stopped (is_active = false), no pause, resume or
\* stop command (nor any other step) makes is_active true again, and the
\* candidate query of the check cycle never returns it again.
C1_StoppedIsPermanent ==
    [][\A id \in Stopped(db_trackings) :
          /\ id \in DOMAIN db_trackings' => id \in Stopped(db_trackings')
          /\ \A batch \in get_trackings_to_check(db_trackings', Cardinality(Ids)) :
                id \notin BatchIds(batch)
          /\ pc' = "loop" /\ pc = "idle" => id \notin BatchIds(trackings')]_vars

\* a stopped tracking that is also paused, after a /stop on a tracking that
\* was already stopped (the counter fell below the number of active ones)
C1_Witness ==
    \E id \in Stopped(db_trackings) :
        /\ db_trackings[id].is_paused
        /\ db_users[Owner(id)].active_trackings
               < Cardinality(DOMAIN db_trackings \ Stopped(db_trackings))

\* C2: the batch a check cycle fetches contains only trackings that at the
\* time of the query have is_active = true and is_paused = false.
C2_BatchOnlyEligible ==
    [][pc = "idle" /\ pc' = "loop" =>
          \A n \in 1..Len(trackings') :
              /\ trackings'[n].id \in DOMAIN db_trackings
              /\ db_trackings[trackings'[n].id].is_active
              /\ ~db_trackings[trackings'[n].id].is_paused]_vars

\* a freshly fetched batch that leaves out a paused or stopped tracking
C2_Witness ==
    /\ pc = "loop"
    /\ idx = 0
    /\ \E id \in DOMAIN db_trackings \ BatchIds(trackings) :
          db_trackings[id].is_paused \/ ~db_trackings[id].is_active


\* the loop of check_prices has just finished the iteration of trackings[idx]
Checked == pc = "loop" /\ idx > 0

\* ... and that iteration scraped a product
CheckedOk == Checked /\ ~no_update(product_data)

\* the tracking of the iteration just finished, as fetched
LastTracking == trackings[idx]

EventsOf(type, id) ==
    {n \in 1..Len(notifications) :
        notifications[n].type = type /\ notifications[n].tracking.id = id}

PriceEvents(id) == Cardinality(EventsOf("price_alert", id))

StockEvents(id) == Cardinality(EventsOf("stock_alert", id))

\* the change is an increase the settings do not want to hear about
IncreaseUnwanted(tracking, new_price) ==
    new_price > tracking.current_price /\ ~tracking.alert_settings.notify_on_price_increase

\* C3: under percentage_drop with threshold T and old_price > 0 a check emits
\* exactly one price event when (new - old) / old * 100 <= -T (in exact
\* arithmetic, the boundary included) and none otherwise.
C3_PercentageDropIff ==
    (/\ CheckedOk
     /\ LastTracking.alert_settings.alert_type = "percentage_drop"
     /\ LastTracking.alert_settings.threshold # None
     /\ LastTracking.current_price > 0)
    => PriceEvents(LastTracking.id) =
          IF (product_data.price - LastTracking.current_price) * 100
                 <= -LastTracking.alert_settings.threshold * LastTracking.current_price
          THEN 1 ELSE 0

\* C4: under fixed_price with threshold T, for a changed price with
\* old_price > 0 and no increase suppression, a check emits exactly one price
\* event when new_price <= T (new_price = T included) and none otherwise.
C4_FixedPriceIff ==
    (/\ CheckedOk
     /\ LastTracking.alert_settings.alert_type = "fixed_price"
     /\ LastTracking.alert_settings.threshold # None
     /\ LastTracking.current_price > 0
     /\ product_data.price # LastTracking.current_price
     /\ ~IncreaseUnwanted(LastTracking, product_data.price))
    => PriceEvents(LastTracking.id) =
          IF product_data.price <= LastTracking.alert_settings.threshold THEN 1 ELSE 0

\* a check under fixed_price whose new price equals the threshold, alerted
C4_Witness ==
    /\ CheckedOk
    /\ LastTracking.alert_settings.alert_type = "fixed_price"
    /\ LastTracking.current_price > 0
    /\ product_data.price # LastTracking.current_price
    /\ product_data.price = LastTracking.alert_settings.threshold
    /\ PriceEvents(LastTracking.id) = 1

\* C5: under any_change, a check with old_price > 0 and new_price different
\* from old_price emits exactly one price event, unless the change is an
\* increase and notify_on_price_increase is false.
C5_AnyChangeOnce ==
    (/\ CheckedOk
     /\ LastTracking.alert_settings.alert_type = "any_change"
     /\ LastTracking.current_price > 0
     /\ product_data.price # LastTracking.current_price
     /\ ~IncreaseUnwanted(LastTracking, product_data.price))
    => PriceEvents(LastTracking.id) = 1

\* a check under any_change that alerted on a wanted increase
C5_Witness ==
    /\ CheckedOk
    /\ LastTracking.alert_settings.alert_type = "any_change"
    /\ LastTracking.current_price > 0
    /\ product_data.price > LastTracking.current_price
    /\ LastTracking.alert_settings.notify_on_price_increase
    /\ PriceEvents(LastTracking.id) = 1

\* C6: whatever the alert kind, a check that finds a price increase while
\* notify_on_price_increase is false emits no price event.
C6_IncreaseSuppressed ==
    (CheckedOk /\ IncreaseUnwanted(LastTracking, product_data.price))
    => PriceEvents(LastTracking.id) = 0

\* an unwanted increase that stays below a fixed_price threshold, not alerted
C6_Witness ==
    /\ CheckedOk
    /\ IncreaseUnwanted(LastTracking, product_data.price)
    /\ LastTracking.current_price > 0
    /\ LastTracking.alert_settings.alert_type = "fixed_price"
    /\ LastTracking.alert_settings.threshold # None
    /\ product_data.price <= LastTracking.alert_settings.threshold
    /\ PriceEvents(LastTracking.id) = 0

\* C7: a check whose scraped price equals the recorded price emits no price
\* event, for every alert configuration.
C7_NoEventOnEqualPrice ==
    (CheckedOk /\ product_data.price = LastTracking.current_price)
    => PriceEvents(LastTracking.id) = 0

\* an unchanged non-zero price under any_change, not alerted
C7_Witness ==
    /\ CheckedOk
    /\ product_data.price = LastTracking.current_price
    /\ LastTracking.current_price > 0
    /\ LastTracking.alert_settings.alert_type = "any_change"
    /\ PriceEvents(LastTracking.id) = 0

\* C8: a check with a successful scrape emits exactly one stock event when
\* notify_on_stock is true and the scraped status is not in_stock, and none
\* otherwise.
C8_StockEventIff ==
    CheckedOk
    => StockEvents(LastTracking.id) =
          IF LastTracking.alert_settings.notify_on_stock
                 /\ product_data.stock_status # "in_stock"
          THEN 1 ELSE 0

IsSend(entry) == entry.op = "send_message"

Sends == SelectSeq(timeline, IsSend)

\* the loop over the batches is over: send_batch_notifications returns
Dispatched == pc = "send" /\ i >= Len(notifications)

\* C9: send_batch_notifications attempts the events in input order, each
\* once, event m in batch (m - 1) div 30; when it returns, all N events have
\* been attempted, in ceil(N / 30) batches, whichever deliveries failed.
C9_EveryEventAttemptedOnce ==
    /\ pc \in {"send", "idle"} =>
          \A m \in 1..Len(Sends) :
              /\ Sends[m].n = m
              /\ Sends[m].batch = batch_size * ((m - 1) \div batch_size)
    /\ Dispatched =>
          /\ Len(Sends) = Len(notifications)
          /\ Cardinality({Sends[m].batch : m \in 1..Len(Sends)})
                 = (Len(notifications) + batch_size - 1) \div batch_size

\* a call with more than one batch has returned after the delivery of its
\* first event, a price alert, failed
C9_Witness ==
    /\ Dispatched
    /\ Len(notifications) > batch_size
    /\ Len(Sends) = Len(notifications)
    /\ notifications[1].type = "price_alert"
    /\ db_trackings[notifications[1].tracking.id].alert_count = 0

\* C10: an iteration whose scrape fails (no result, or a result with an
\* error) leaves the tracking's document (last_checked, current_price,
\* price_history, check_count) as it was and emits no event, so no tracking
\* that was not ordered before it gets ordered before it.
C10_FailedScrapeChangesNothing ==
    [][(pc = "loop" /\ idx' = idx + 1 /\ scrape_failed(product_data')) =>
          LET id == trackings[idx + 1].id IN
          /\ notifications' = notifications
          /\ id \in DOMAIN db_trackings =>
                /\ id \in DOMAIN db_trackings'
                /\ db_trackings'[id].last_checked = db_trackings[id].last_checked
                /\ db_trackings'[id].current_price = db_trackings[id].current_price
                /\ db_trackings'[id].price_history = db_trackings[id].price_history
                /\ db_trackings'[id].check_count = db_trackings[id].check_count
                /\ \A u \in DOMAIN db_trackings \cap DOMAIN db_trackings' :
                      SortKey(db_trackings[id]) <= SortKey(db_trackings[u])
                          => SortKey(db_trackings'[id]) <= SortKey(db_trackings'[u])]_vars

\* a failed scrape of a tracking that an earlier cycle had checked, while the
\* other tracking has been checked later
C10_Witness ==
    /\ Checked
    /\ scrape_failed(product_data)
    /\ LastTracking.check_count > 0
    /\ \E u \in DOMAIN db_trackings :
          db_trackings[u].last_checked > LastTracking.last_checked

\* the last entry of a tracking's price history
LastEntry(doc) == doc.price_history[Len(doc.price_history)]

IsPrefix(s, t) == Len(s) <= Len(t) /\ SubSeq(t, 1, Len(s)) = s

\* C11: in every state every tracking has a non-empty price_history whose last
\* entry carries current_price, and every step leaves the entries a tracking
\* already had in place, unchanged, adding new ones only at the end.
C11_HistoryAppendOnly ==
    /\ [](\A id \in DOMAIN db_trackings :
             /\ db_trackings[id].price_history # <<>>
             /\ db_trackings[id].current_price = LastEntry(db_trackings[id]).price)
    /\ [][\A id \in DOMAIN db_trackings \cap DOMAIN db_trackings' :
             IsPrefix(db_trackings[id].price_history, db_trackings'[id].price_history)]_vars

\* a tracking checked twice, at a new price and back at the first one, then
\* paused: three entries, the last one carrying current_price
C11_Witness ==
    \E id \in DOMAIN db_trackings :
        /\ Len(db_trackings[id].price_history) = 3
        /\ db_trackings[id].price_history[2].price # db_trackings[id].price_history[1].price
        /\ db_trackings[id].current_price = db_trackings[id].price_history[1].price
        /\ db_trackings[id].is_paused

\* ------------------------------------------------------------------------
\* SpecLifecycle: the lifecycle commands alone, no check cycle running
\* ------------------------------------------------------------------------
SpecLifecycle == Init /\ [][AnyCommand]_vars

\* the sender is not the owner of the tracking, or there is no such tracking
Foreign(user_id, tracking_id) ==
    tracking_id \notin DOMAIN db_trackings \/ db_trackings[tracking_id].user_id # user_id

Flags(db) == [id \in DOMAIN db |-> <<db[id].is_active, db[id].is_paused>>]

\* C12: a /pause, /resume or /stop whose sender does not own the tracking (or
\* that names no tracking) is answered "Product not found." and changes no
\* tracking's is_active or is_paused and no user's counters.
C12_ForeignCommandRejected ==
    [][\A user_id \in Users, tracking_id \in Ids \cup {MissingId} :
          (/\ Foreign(user_id, tracking_id)
           /\ \/ cmd_pause_tracking(user_id, tracking_id)
              \/ cmd_resume_tracking(user_id, tracking_id)
              \/ cmd_stop_tracking(user_id, tracking_id))
          => /\ reply' = NotFound
             /\ Flags(db_trackings') = Flags(db_trackings)
             /\ db_users' = db_users]_vars

\* a command has just been rejected while one tracking is paused and the
\* other stopped: the flags and the owner's counter are as the owner left them
C12_Witness ==
    /\ reply = NotFound
    /\ \E id \in DOMAIN db_trackings : db_trackings[id].is_paused /\ db_trackings[id].is_active
    /\ \E id \in DOMAIN db_trackings : ~db_trackings[id].is_active
    /\ db_users[1].active_trackings = 1
    /\ db_users[2] = NewUser(0)

\* C13: at most one run of check_prices is in progress at any time; a trigger
\* that arrives during a run starts no second one.
C13_NoOverlappingRuns ==
    /\ instances <= 1
    /\ instances = 1 <=> pc # "idle"

\* a run is in its delivery phase while the trigger can fire again
C13_Witness ==
    /\ pc = "send"
    /\ k > 0
    /\ instances = max_instances
    /\ ENABLED StartCheck

\* ------------------------------------------------------------------------
\* SpecLive: more eligible trackings than one batch holds, cycles triggered
\* again and again
\* ------------------------------------------------------------------------
\* one tracking more than get_trackings_to_check returns
LiveIds == 1..(CheckBatchSize + 1)

\* the first tracking added was checked once at time 0; the others were
\* added after that check and have never been checked
InitLive ==
    LET last == CheckBatchSize + 1
        db0  == [id \in LiveIds |-> NewTracking(id, 100, "in_stock", DefaultAlertSettings)]
    IN  /\ now = 1
        /\ pc = "idle"
        /\ trackings = <<>>
        /\ idx = 0
        /\ product_data = NoProductData
        /\ notifications = <<>>
        /\ i = 0
        /\ k = 0
        /\ timeline = <<>>
        /\ send_result = NotSent
        /\ reply = NoReply
        /\ listing = NoListing
        /\ instances = 0
        /\ NoUrlCall
        /\ NoLegacyStore
        /\ Started
        /\ site = MainSite
        /\ db_trackings = update_tracking_price(db0, last, 100, "in_stock", 0, 0)
        /\ db_users = [u \in Users |-> NewUser(CountOwned(db0, u))]

\* the interval trigger keeps firing and a started run keeps running
SpecLive ==
    /\ InitLive
    /\ [][Next]_vars
    /\ WF_vars(Cycle)
    /\ WF_vars(Dispatch)

\* a cycle has just fetched its batch
CycleStarted == pc = "loop" /\ idx = 0

\* the loop has just run scrape_product for tracking id
Scraped(id) == Checked /\ LastTracking.id = id

\* C14: when check cycles are started again and again, every tracking that
\* stays active and unpaused is eventually scraped, whatever the scrapes of
\* the other trackings return.
C14_EligibleEventuallyScraped ==
    \A id \in LiveIds :
        ([]<>CycleStarted /\ [](id \in Eligible(db_trackings))) => <>Scraped(id)

\* the stock event the settings ask for after a scrape
StockDue == stock_alert_due(product_data, LastTracking.alert_settings)

\* C15: with alert kind percentage_drop or fixed_price and no threshold, a
\* check that finds another price emits no price event and completes without
\* an error: the stock rule of that check is carried out as always.
C15_MissingThresholdNeverFires ==
    (/\ CheckedOk
     /\ LastTracking.alert_settings.alert_type \in {"percentage_drop", "fixed_price"}
     /\ LastTracking.alert_settings.threshold = None
     /\ product_data.price # LastTracking.current_price)
    => /\ PriceEvents(LastTracking.id) = 0
       /\ StockEvents(LastTracking.id) = IF StockDue THEN 1 ELSE 0

\* ------------------------------------------------------------------------
\* SpecUrl: detect_platform and convert_to_affiliate on the URLs that
\* extract_url_from_message lets through
\* ------------------------------------------------------------------------
\* the query of a URL has up to MaxPairs pieces
MaxPairs == 2

UrlSchemes == {"http", "https"}

UrlHosts == {"www.amazon.in", "www.flipkart.com", "www.myntra.com",
             "meesho.com", "snapdeal.com", "ebay.com"}

UrlPaths == {"", "/dp/B09G9BL5CP", "/p/amazon.in"}

QueryPieces == {"tag=old", "affid=1", "aff_id=2", "campid=3", "ref=sr",
                "ta%67=a+b", "tag="}

Queries ==
    UNION {{join(<<"&">>, [n \in 1..m |-> Chars(f[n])]) : f \in [1..m -> QueryPieces]} :
               m \in 0..MaxPairs}

Urls ==
    {Chars(s) \o Chars("://") \o Chars(h) \o Chars(p)
         \o (IF q = <<>> THEN <<>> ELSE <<"?">> \o q) :
     s \in UrlSchemes, h \in UrlHosts, p \in UrlPaths, q \in Queries}

InitUrl ==
    /\ now = 0
    /\ pc = "idle"
    /\ trackings = <<>>
    /\ idx = 0
    /\ product_data = NoProductData
    /\ notifications = <<>>
    /\ i = 0
    /\ k = 0
    /\ timeline = <<>>
    /\ send_result = NotSent
    /\ reply = NoReply
    /\ listing = NoListing
    /\ instances = 0
    /\ site = MainSite
    /\ db_trackings = <<>>
    /\ db_users = [u \in Users |-> NewUser(0)]
    /\ url \in Urls
    /\ platform \in Range(Platforms) \cup {NoPlatform}
    /\ detected = NotDetected
    /\ affiliate_url = NotConverted
    /\ Started
    /\ NoLegacyStore

\* platform = affiliate_manager.detect_platform(url)
DetectPlatform ==
    /\ detected = NotDetected
    /\ detected' = detect_platform(url)
    /\ UNCHANGED <<dbVars, now, site, reply, listing, cycleVars, sendVars, startVars, legacyVars,
                   url, platform, affiliate_url>>

\* affiliate_url = affiliate_manager.convert_to_affiliate(url, platform)
ConvertToAffiliate ==
    /\ affiliate_url = NotConverted
    /\ affiliate_url' = convert_to_affiliate(url, platform)
    /\ UNCHANGED <<dbVars, now, site, reply, listing, cycleVars, sendVars, startVars, legacyVars,
                   url, platform, detected>>

SpecUrl == InitUrl /\ [][DetectPlatform \/ ConvertToAffiliate]_vars

\* the host of a URL, and whether it is a domain or a subdomain of it
HostOf(u) == lower(urlparse(u).netloc)

IsHostOf(host, domain) ==
    \/ host = domain
    \/ /\ Len(host) > Len(domain)
       /\ SubSeq(host, Len(host) - Len(domain), Len(host)) = <<".">> \o domain

HostPlatforms(u) ==
    {p \in Range(Platforms) :
        \E n \in 1..Len(platform_patterns[p]) :
            IsHostOf(HostOf(u), Chars(platform_patterns[p][n]))}

\* C16: for a URL whose host is a domain of a supported platform,
\* detect_platform returns that platform, whatever the path and the query
\* contain.
C16_HostDecidesPlatform ==
    detected # NotDetected => \A p \in HostPlatforms(url) : detected = p

\* the values a query string gives the parameter: the pieces between the
\* "&" whose decoded name is the parameter
ParamValues(query, param) ==
    LET pieces  == split(query, "&")
        name(n) == IF Find(pieces[n], "=", 1) = 0 THEN pieces[n]
                   ELSE SubSeq(pieces[n], 1, Find(pieces[n], "=", 1) - 1)
        val(n)  == IF Find(pieces[n], "=", 1) = 0 THEN <<>>
                   ELSE SubSeq(pieces[n], Find(pieces[n], "=", 1) + 1, Len(pieces[n]))
        hits    == {n \in 1..Len(pieces) : unquote_plus(name(n)) = param}
    IN  [n \in hits |-> unquote_plus(val(n))]

Converted == affiliate_url # NotConverted /\ platform \in Range(Platforms)

C18_StockRuleIndependent ==
    CheckedOk => ((StockEvents(LastTracking.id) >= 1) <=> StockDue)

\* C19: when the price recorded before the check is zero or absent, the
\* check emits no price event and raises no error: the new price is recorded
\* and the stock rule is evaluated.
C19_NoOldPriceNoPriceEvent ==
    (CheckedOk /\ ~Truthy(LastTracking.current_price))
    => /\ PriceEvents(LastTracking.id) = 0
       /\ db_trackings[LastTracking.id].current_price = product_data.price
       /\ LastEntry(db_trackings[LastTracking.id]).price = product_data.price
       /\ Len(db_trackings[LastTracking.id].price_history)
              = Len(LastTracking.price_history) + 1
       /\ StockEvents(LastTracking.id) = IF StockDue THEN 1 ELSE 0

\* old price zero, a rule without its threshold, a new price, out of stock
C19_Witness ==
    /\ CheckedOk
    /\ LastTracking.current_price = 0
    /\ LastTracking.alert_settings.alert_type = "percentage_drop"
    /\ LastTracking.alert_settings.threshold = None
    /\ product_data.price = 71
    /\ db_trackings[LastTracking.id].current_price = 71
    /\ StockDue
    /\ StockEvents(LastTracking.id) = 1

\* the step of an iteration whose scrape succeeded
SuccessfulCheck ==
    pc = "loop" /\ idx' = idx + 1 /\ ~no_update(product_data')

\* C20: every successful scrape, in one step, appends one price_history entry
\* with the scraped price, sets current_price, advances last_checked and adds
\* one to check_count, whether or not the check emits an event.
C20_SuccessfulScrapeRecorded ==
    [][SuccessfulCheck =>
          LET id     == trackings[idx + 1].id
              before == db_trackings[id]
              after  == db_trackings'[id]
          IN  /\ Len(after.price_history) = Len(before.price_history) + 1
              /\ LastEntry(after).price = product_data'.price
              /\ LastEntry(after).stock_status = product_data'.stock_status
              /\ LastEntry(after).timestamp = now
              /\ after.current_price = product_data'.price
              /\ after.last_checked = now
              /\ after.last_checked > before.last_checked
              /\ after.check_count = before.check_count + 1
              /\ \A other \in DOMAIN db_trackings \ {id} :
                     db_trackings'[other] = db_trackings[other]]_vars

\* a second successful check of a tracking that emitted no event
C20_Witness ==
    /\ CheckedOk
    /\ notifications = <<>>
    /\ LastTracking.check_count = 1
    /\ db_trackings[LastTracking.id].check_count = 2
    /\ db_trackings[LastTracking.id].last_checked > LastTracking.last_checked

\* ------------------------------------------------------------------------
\* SpecBatch: check cycles over more trackings than a batch holds, with
\* scrapes and updates that may raise
\* ------------------------------------------------------------------------
\* percentage_drop without a threshold: the rule raises on a price change
RaisingSettings == [DefaultAlertSettings EXCEPT !.alert_type = "percentage_drop"]

InitBatch ==
    \E settings \in {DefaultAlertSettings, RaisingSettings}, paused \in BOOLEAN :
        LET db0 == [id \in LiveIds |->
                       NewTracking(id, 100, "in_stock",
                                   IF id = 1 THEN settings ELSE DefaultAlertSettings)]
        IN  /\ now = 0
            /\ pc = "idle"
            /\ trackings = <<>>
            /\ idx = 0
            /\ product_data = NoProductData
            /\ notifications = <<>>
            /\ i = 0
            /\ k = 0
            /\ timeline = <<>>
            /\ send_result = NotSent
            /\ reply = NoReply
            /\ listing = NoListing
            /\ instances = 0
            /\ NoUrlCall
            /\ NoLegacyStore
            /\ Started
            /\ site = MainSite \cup {RaisedBeforeUpdate}
            /\ db_trackings = IF paused THEN pause_tracking(db0, CheckBatchSize + 1) ELSE db0
            /\ db_users = [u \in Users |-> NewUser(CountOwned(db0, u))]

SpecBatch == InitBatch /\ [][Cycle \/ Dispatch]_vars

\* C21: whatever an iteration of the loop runs into (a failed or raising
\* scrape, a raising update, an error in the alert rule), the loop goes on
\* with the next tracking of the batch and keeps the events gathered so far;
\* after the last tracking the events are handed to the notifier, and the
\* run ends by returning.
C21_FailureAbsorbed ==
    /\ [](pc \in {"idle", "loop", "send"})
    /\ [][/\ ((pc = "loop" /\ idx < Len(trackings))
                => (/\ pc' = "loop"
                    /\ idx' = idx + 1
                    /\ trackings' = trackings
                    /\ IsPrefix(notifications, notifications')))
           /\ ((pc = "loop" /\ idx = Len(trackings))
                => (IF notifications # <<>>
                    THEN pc' = "send" /\ notifications' = notifications
                    ELSE pc' = "idle"))]_vars

\* the rule of the first tracking of the batch raised on a changed price, the
\* second tracking was checked all the same, and its event has been sent
C21_Witness ==
    /\ pc = "send"
    /\ Len(trackings) = 2
    /\ trackings[1].alert_settings = RaisingSettings
    /\ db_trackings[trackings[1].id].current_price # trackings[1].current_price
    /\ PriceEvents(trackings[1].id) = 0
    /\ db_trackings[trackings[2].id].check_count = trackings[2].check_count + 1
    /\ PriceEvents(trackings[2].id) = 1
    /\ Len(Sends) >= 1

\* the alert statistics of a tracking document
AlertStats(doc) == <<doc.alert_count, doc.last_alert_sent>>

\* the step is one iteration of `for notification in batch`
SendStep == pc = "send" /\ k' = k + 1

\* C22: a delivered price alert adds one to alert_count of its tracking and
\* sets last_alert_sent to the time of the send; a delivered stock alert and
\* a price alert whose send failed leave alert_count and last_alert_sent of
\* every tracking as they were.
C22_AlertStatsFrame ==
    [][SendStep =>
         LET notification == notifications[i + k + 1]
             id == notification.tracking.id
         IN /\ \A other \in DOMAIN db_trackings \ {id} :
                  AlertStats(db_trackings'[other]) = AlertStats(db_trackings[other])
            /\ IF notification.type = "price_alert" /\ send_result' = "delivered"
               THEN /\ db_trackings'[id].alert_count = db_trackings[id].alert_count + 1
                    /\ db_trackings'[id].last_alert_sent = now
               ELSE AlertStats(db_trackings'[id]) = AlertStats(db_trackings[id])]_vars

\* a cycle with a price and a stock event for each of two trackings: the
\* price alert of the first was delivered, the one of the second failed, and
\* the stock alert sent last was delivered
C22_Witness ==
    /\ pc = "send"
    /\ Len(trackings) = 2
    /\ Len(notifications) = 4
    /\ k = 4
    /\ notifications[3].type = "price_alert"
    /\ notifications[4].type = "stock_alert"
    /\ send_result = "delivered"
    /\ db_trackings[trackings[1].id].alert_count = trackings[1].alert_count + 1
    /\ db_trackings[trackings[1].id].last_alert_sent = now
    /\ AlertStats(db_trackings[trackings[2].id]) = AlertStats(trackings[2])

\* C23: within a cycle nothing is sent while the loop over the batch runs;
\* send_batch_notifications is entered only from the end of the loop, with
\* every tracking of the batch processed and a non-empty event list, it works
\* on exactly the accumulated list, and it is followed by the return of
\* check_prices (one call per cycle); with no events the cycle returns
\* without a call.
C23_OneDispatchAfterLoop ==
    /\ [](pc = "loop" => timeline = <<>>)
    /\ [](pc = "send" => idx = Len(trackings) /\ notifications # <<>>)
    /\ [][/\ ((pc # "send" /\ pc' = "send")
               => (pc = "loop" /\ idx = Len(trackings) /\ notifications' = notifications))
          /\ (pc = "send" => (pc' = "idle" \/ (pc' = "send" /\ notifications' = notifications)))
          /\ ((pc = "loop" /\ idx = Len(trackings) /\ notifications = <<>>)
               => (pc' = "idle" /\ timeline' = <<>>))
          /\ (timeline' # timeline /\ timeline' # <<>>) => pc = "send"]_vars

\* the first tracking of a batch of two produced an event, the second was
\* processed as well, and the first delivery has been attempted
C23_Witness ==
    /\ pc = "send"
    /\ Len(trackings) = 2
    /\ idx = 2
    /\ notifications[1].tracking.id = trackings[1].id
    /\ db_trackings[trackings[2].id].check_count = trackings[2].check_count + 1
    /\ Len(Sends) = 1

\* the price event at position a and the stock event at position b of the
\* event list come from the same check
SameCheck(a, b) ==
    /\ notifications[a].type = "price_alert"
    /\ notifications[b].type = "stock_alert"
    /\ notifications[a].tracking.id = notifications[b].tracking.id

\* C24: when one check yields a price event and a stock event, the price
\* event stands before the stock event in the event list, and whenever the
\* delivery of the stock event has been attempted, the delivery of the price
\* event was attempted before it.
C24_PriceEventBeforeStockEvent ==
    \A a, b \in 1..Len(notifications) :
        SameCheck(a, b) =>
            /\ a < b
            /\ \A q \in 1..Len(Sends) :
                   Sends[q].n = b => \E p \in 1..(q - 1) : Sends[p].n = a

\* the first check of the cycle gave a price and a stock event, and both
\* deliveries have been attempted
C24_Witness ==
    /\ pc = "send"
    /\ Len(notifications) >= 2
    /\ SameCheck(1, 2)
    /\ Len(Sends) = 2
    /\ Sends[2].n = 2

\* asyncio.sleep(0.05), the pacing delay within a batch
IsPacing(entry) == entry.op = "sleep" /\ entry.ms = 50

\* asyncio.sleep(1), the delay between batches
IsBatchDelay(entry) == entry.op = "sleep" /\ entry.ms = 1000

\* the delivery attempts since the last delay between batches
SendsSinceBatchDelay ==
    LET delays == {p \in 1..Len(timeline) : IsBatchDelay(timeline[p])}
        last   == IF delays = {} THEN 0 ELSE Max(delays)
    IN  Cardinality({p \in (last + 1)..Len(timeline) : IsSend(timeline[p])})

\* C25: in the trace of send_batch_notifications every delivery attempt is
\* followed by the pacing delay; two consecutive attempts of one batch have
\* only that delay between them, two consecutive attempts of different
\* batches have the pacing delay and then the delay between batches between
\* them; the trace begins with an attempt and, when the call returns, ends
\* with a pacing delay (no delay between batches after the last batch); at
\* no moment have more than batch_size = 30 attempts been made since the
\* last delay between batches.
C25_PacingDelays ==
    /\ \A p \in 1..Len(timeline) :
          IsSend(timeline[p]) =>
            /\ p < Len(timeline)
            /\ timeline[p + 1] = SleepEntry(timeline[p].batch, 50)
            /\ p > 1 =>
                 IF IsPacing(timeline[p - 1])
                 THEN /\ IsSend(timeline[p - 2])
                      /\ timeline[p - 2].batch = timeline[p].batch
                 ELSE /\ IsBatchDelay(timeline[p - 1])
                      /\ IsPacing(timeline[p - 2])
                      /\ IsSend(timeline[p - 3])
                      /\ timeline[p - 3].batch # timeline[p].batch
    /\ timeline # <<>> => IsSend(timeline[1])
    /\ Dispatched => IsPacing(timeline[Len(timeline)])
    /\ SendsSinceBatchDelay <= 30

\* a call with 61 events has returned: three batches with two delays between
\* them
C25_Witness ==
    /\ Dispatched
    /\ Len(Sends) = 61
    /\ Cardinality({p \in 1..Len(timeline) : IsBatchDelay(timeline[p])}) = 2
    /\ IsPacing(timeline[Len(timeline)])

\* C26: the batch check_prices fetches has min(batch_size, number of
\* eligible trackings) entries, all different and eligible, in ascending
\* order of last_checked (a tracking never checked has the smallest key), and
\* no eligible tracking left out has a smaller last_checked than one in the
\* batch; iteration n of the loop handles entry n of that batch, whatever
\* happened to the entries before it: the batch stays as fetched and only the
\* document of entry idx + 1 changes in the step from idx to idx + 1.
C26_OldestFirstBatch ==
    [][/\ ((pc = "idle" /\ pc' = "loop") =>
            LET batch == trackings'
                m     == Len(batch)
            IN  /\ m = Min(CheckBatchSize, Cardinality(Eligible(db_trackings)))
                /\ \A n \in 1..m : /\ batch[n].id \in Eligible(db_trackings)
                                   /\ batch[n] = db_trackings[batch[n].id]
                /\ \A a, b \in 1..m :
                      a < b => /\ batch[a].id # batch[b].id
                               /\ SortKey(batch[a]) <= SortKey(batch[b])
                /\ \A id \in Eligible(db_trackings) \ BatchIds(batch) :
                      \A n \in 1..m : SortKey(batch[n]) <= SortKey(db_trackings[id]))
       /\ ((pc = "loop" /\ idx < Len(trackings)) =>
            /\ trackings' = trackings
            /\ idx' = idx + 1
            /\ \A id \in DOMAIN db_trackings \ {trackings[idx + 1].id} :
                  db_trackings'[id] = db_trackings[id]
            /\ ~no_update(product_data') =>
                  db_trackings'[trackings[idx + 1].id].check_count
                      = db_trackings[trackings[idx + 1].id].check_count + 1)]_vars

\* a batch of two never-checked trackings that leaves out an eligible
\* tracking checked before; the check of the first entry failed and the
\* second entry was checked after it
C26_Witness ==
    /\ pc = "loop"
    /\ idx = 2
    /\ Len(trackings) = CheckBatchSize
    /\ trackings[1].last_checked = None
    /\ trackings[2].last_checked = None
    /\ \E id \in Eligible(db_trackings) \ BatchIds(trackings) :
          db_trackings[id].last_checked # None
    /\ db_trackings[trackings[1].id].check_count = 0
    /\ db_trackings[trackings[2].id].check_count = 1

\* C27: no tracking is stopped and paused at once: is_active = false and
\* is_paused = true never hold together, whatever pause, resume and stop
\* commands were given.
C27_StoppedNeverPaused ==
    \A id \in DOMAIN db_trackings :
        ~(~db_trackings[id].is_active /\ db_trackings[id].is_paused)

\* ------------------------------------------------------------------------
\* SpecListing: the lifecycle commands and /my_trackings
\* ------------------------------------------------------------------------
MyTrackings == \E user_id \in Users : cmd_my_trackings(user_id)

SpecListing == Init /\ [][AnyCommand \/ MyTrackings]_vars

\* C28: a tracking that is paused and not stopped is in no batch
\* get_trackings_to_check returns, and the answer to /my_trackings lists
\* exactly the sender's trackings that are not stopped, the paused ones
\* included.
C28_PausedListedNotScraped ==
    /\ [](\A id \in DOMAIN db_trackings :
            (db_trackings[id].is_active /\ db_trackings[id].is_paused) =>
                \A batch \in get_trackings_to_check(db_trackings, CheckBatchSize) :
                    id \notin BatchIds(batch))
    /\ [][listing'.user_id # NoListing.user_id =>
            \A id \in DOMAIN db_trackings :
                db_trackings[id].user_id = listing'.user_id =>
                    (id \in listing'.ids <=> db_trackings[id].is_active)]_vars

\* the fields of a document the check cycle writes
PriceFields(doc) ==
    <<doc.current_price, doc.price_history, doc.last_checked, doc.check_count>>

\* C29: whenever a lifecycle command and the price update of a cycle meet on
\* a tracking, both writes stay: a command step leaves current_price,
\* price_history, last_checked and check_count of every tracking as they
\* are, and the iteration of the cycle that scraped a product writes these
\* four fields of its tracking and leaves is_active and is_paused of every
\* tracking as the commands wrote them, also when the command came between
\* the fetch of the batch and the iteration.
C29_NoLostWrite ==
    [][/\ UNCHANGED <<cycleVars, sendVars>> =>
            \A id \in DOMAIN db_trackings :
                PriceFields(db_trackings'[id]) = PriceFields(db_trackings[id])
       /\ (pc = "loop" /\ idx' = idx + 1) =>
            /\ Flags(db_trackings') = Flags(db_trackings)
            /\ ~no_update(product_data') =>
                 LET id == trackings[idx + 1].id IN
                 /\ db_trackings'[id].current_price = product_data'.price
                 /\ db_trackings'[id].last_checked = now
                 /\ db_trackings'[id].check_count = db_trackings[id].check_count + 1
                 /\ Len(db_trackings'[id].price_history)
                        = Len(db_trackings[id].price_history) + 1
                 /\ LastEntry(db_trackings'[id]).price = product_data'.price]_vars

\* a tracking was paused after the batch with it was fetched and then
\* checked: the document holds the pause and the checked price
C29_Witness ==
    /\ pc = "loop"
    /\ idx = 1
    /\ ~trackings[1].is_paused
    /\ db_trackings[trackings[1].id].is_paused
    /\ ~no_update(product_data)
    /\ db_trackings[trackings[1].id].check_count = trackings[1].check_count + 1
    /\ db_trackings[trackings[1].id].current_price = product_data.price
    /\ db_trackings[trackings[1].id].current_price # trackings[1].current_price

\* ------------------------------------------------------------------------
\* SpecStartup: PriceTrackerBot.start, then the check cycles
\* ------------------------------------------------------------------------
\* the deployments: a primary server, with or without a secondary one
\* (SECONDARY_MONGO_URI), each answering a ping or not
Deployments ==
    {m \in [primary_up : BOOLEAN, secondary_uri : BOOLEAN, secondary_up : BOOLEAN] :
        m.secondary_up => m.secondary_uri}

\* DatabaseManager.connect: the primary server, else the secondary one when
\* it is configured; is_connected is set after a successful ping only
connect(m) ==
    IF m.primary_up
    THEN [is_connected |-> TRUE, raised |-> FALSE]
    ELSE IF m.secondary_uri /\ m.secondary_up
         THEN [is_connected |-> TRUE, raised |-> FALSE]
         ELSE [is_connected |-> FALSE, raised |-> TRUE]

\* on_startup logs the exception of connect and goes on
OnStartup_swallows_failure ==
    /\ boot = "off"
    /\ is_connected' = connect(mongo).is_connected
    /\ scheduler_running' = TRUE
    /\ boot' = "polling"
    /\ UNCHANGED <<dbVars, now, site, urlVars, reply, listing, cycleVars, sendVars, mongo, legacyVars>>

\* start: on_startup connects, and when connect raised, logs and raises
\* again, so start goes to on_shutdown; else it starts the scheduler and
\* start goes on to poll
OnStartup ==
    /\ boot = "off"
    /\ is_connected' = connect(mongo).is_connected
    /\ IF connect(mongo).raised
       THEN /\ scheduler_running' = FALSE
            /\ boot' = "failed"
       ELSE /\ scheduler_running' = TRUE
            /\ boot' = "polling"
    /\ UNCHANGED <<dbVars, now, site, urlVars, reply, listing, cycleVars, sendVars, mongo, legacyVars>>

\* the process has been launched; the store holds the trackings of earlier
\* runs
InitStartup ==
    /\ InitIdle
    /\ site = MainSite
    /\ db_trackings = [id \in Ids |-> NewTracking(id, 100, "in_stock", DefaultAlertSettings)]
    /\ db_users = [u \in Users |-> NewUser(CountOwned(db_trackings, u))]
    /\ mongo \in Deployments
    /\ is_connected = FALSE
    /\ scheduler_running = FALSE
    /\ boot = "off"

SpecStartup == InitStartup /\ [][OnStartup \/ Cycle \/ Dispatch]_vars

\* no server of the deployment answers
StoreUnreachable == ~mongo.primary_up /\ ~(mongo.secondary_uri /\ mongo.secondary_up)

\* C30: when neither the primary nor a configured secondary server answers,
\* start ends in failure with is_connected false and the scheduler not
\* started, and no check cycle ever begins or writes: check_prices stays
\* idle and the store stays as it was; whenever a cycle runs, the store is
\* connected.
C30_NoStoreNoScheduler ==
    /\ [](StoreUnreachable =>
            /\ boot \in {"off", "failed"}
            /\ ~is_connected
            /\ ~scheduler_running
            /\ pc = "idle"
            /\ instances = 0)
    /\ [](pc # "idle" => is_connected /\ scheduler_running)
    /\ [][StoreUnreachable => (boot = "off" /\ boot' = "failed" /\ UNCHANGED dbVars)]_vars

\* startup has failed with a secondary server configured and both servers
\* down
C30_Witness ==
    /\ boot = "failed"
    /\ mongo.secondary_uri
    /\ StoreUnreachable
    /\ ~is_connected
    /\ ~scheduler_running

\* ------------------------------------------------------------------------
\* SpecCleanup: the cleanup job beside the commands and the check cycles
\* ------------------------------------------------------------------------
\* a document with its updated_at field (default_factory=datetime.utcnow)
WithUpdatedAt(doc, t) ==
    [f \in DOMAIN doc \cup {"updated_at"} |-> IF f = "updated_at" THEN t ELSE doc[f]]

\* delete_many without the is_active condition
cleanup_old_data_any_state(db, days, t) ==
    LET cutoff_date == t - days
        deleted     == {id \in DOMAIN db : db[id].updated_at < cutoff_date}
    IN  [id \in DOMAIN db \ deleted |-> db[id]]

\* delete_many({"is_active": False, "updated_at": {"$lt": cutoff_date}})
cleanup_old_data(db, days, t) ==
    LET cutoff_date == t - days
        deleted     == {id \in DOMAIN db :
                           ~db[id].is_active /\ db[id].updated_at < cutoff_date}
    IN  [id \in DOMAIN db \ deleted |-> db[id]]

\* the cleanup job of the scheduler fires
Cleanup ==
    /\ scheduler_running
    /\ db_trackings' = cleanup_old_data(db_trackings, CleanupDays, now)
    /\ UNCHANGED <<db_users, now, site, urlVars, startVars, legacyVars, reply, listing, cycleVars, sendVars>>

\* time passes
Tick ==
    /\ now < MaxTime
    /\ now' = now + 1
    /\ UNCHANGED <<dbVars, site, urlVars, startVars, legacyVars, reply, listing, cycleVars, sendVars>>

\* the pages show the prices the trackings were created with, so the cycles
\* write to the store and have nothing to send
InitCleanup ==
    /\ InitIdle
    /\ Started
    /\ site = ScrapeProducts({100}, {"in_stock"})
    /\ db_trackings =
         [id \in Ids |->
             WithUpdatedAt(NewTracking(id, 100, "in_stock", DefaultAlertSettings), 0)]
    /\ db_users = [u \in Users |-> NewUser(CountOwned(db_trackings, u))]

SpecCleanup == InitCleanup /\ [][Command \/ Cycle \/ Tick \/ Cleanup]_vars

\* C31: a tracking leaves the store only in a step of the cleanup job, and
\* only when it is stopped (is_active = false) and its updated_at is older
\* than the cutoff, now minus the retention; a tracking that is active,
\* paused or not, is never deleted, and no command and no step of a check
\* cycle deletes a tracking.
C31_CleanupOnlyOldStopped ==
    [][\A id \in DOMAIN db_trackings :
          id \notin DOMAIN db_trackings' =>
              /\ ~db_trackings[id].is_active
              /\ db_trackings[id].updated_at < now - CleanupDays
              /\ UNCHANGED <<db_users, now, reply, listing, cycleVars, sendVars>>]_vars

\* the cleanup job has deleted a tracking and has left a tracking that was
\* paused as long ago
C31_Witness ==
    /\ Cardinality(DOMAIN db_trackings) = 1
    /\ \E id \in DOMAIN db_trackings :
          /\ db_trackings[id].is_active
          /\ db_trackings[id].is_paused
          /\ db_trackings[id].updated_at < now - CleanupDays


\* ------------------------------------------------------------------------
\* The legacy store (src/db_manager.py) and its scheduler (src/scraper.py)
\* ------------------------------------------------------------------------

\* config.INACTIVITY_DAYS, in steps of the model's clock
InactivityDays == 1

\* ids of the documents in MongoManager.products and MongoManager.alerts
LegacyDocIds == {1, 2}

\* a pymongo cursor over the documents a find matched: iteration
\* hands out the documents after pos and moves pos along
Cursor(docs) == [docs |-> docs, pos |-> 0]

\* the cursor after a for loop went through it to the end
exhaust(cursor) == [cursor EXCEPT !.pos = Cardinality(cursor.docs)]

\* list(cursor): the documents the cursor has not handed out yet
list(cursor) == IF cursor.pos >= Cardinality(cursor.docs) THEN {} ELSE cursor.docs

\* delete_many({"user_id": uid}) for every uid of uids
delete_many(coll, uids) == [d \in {e \in DOMAIN coll : coll[e].user_id \notin uids} |-> coll[d]]

\* MongoManager.update_last_active: update_one with upsert
update_last_active(coll, user_id, t) ==
    [u \in DOMAIN coll \cup {user_id} |-> IF u = user_id THEN [last_active |-> t] ELSE coll[u]]

\* MongoManager.cleanup_inactive_users: the for loop consumes the cursor,
\* the return statement lists what is left of it
cleanup_inactive_users(usrs, prods, alrts, t) ==
    LET threshold == t - InactivityDays
        inactive_users == Cursor({u \in DOMAIN usrs : usrs[u].last_active < threshold})
        after_loop == exhaust(inactive_users)
    IN  [users    |-> [u \in DOMAIN usrs \ inactive_users.docs |-> usrs[u]],
         products |-> delete_many(prods, inactive_users.docs),
         alerts   |-> delete_many(alrts, inactive_users.docs),
         returned |-> Cardinality(list(after_loop))]

\* BotScheduler.cleanup_inactive_users, the daily job
CleanupInactiveUsers ==
    /\ LET done == cleanup_inactive_users(mongo_users, mongo_products, mongo_alerts, now)
       IN  /\ mongo_users' = done.users
           /\ mongo_products' = done.products
           /\ mongo_alerts' = done.alerts
           /\ deleted_count' = done.returned
    /\ UNCHANGED <<dbVars, now, site, urlVars, startVars, reply, listing, cycleVars, sendVars>>

\* a message of a user arrives
UpdateLastActive ==
    /\ \E user_id \in Users :
           mongo_users' = update_last_active(mongo_users, user_id, now)
    /\ UNCHANGED <<dbVars, now, site, urlVars, startVars, reply, listing, cycleVars, sendVars,
                   mongo_products, mongo_alerts, deleted_count>>

\* the clock of the legacy scheduler
LegacyTick ==
    /\ now < MaxTime
    /\ now' = now + 1
    /\ UNCHANGED <<dbVars, site, urlVars, startVars, reply, listing, cycleVars, sendVars, legacyVars>>

\* users seen at time 0, and any products and alerts of theirs
InitLegacy ==
    /\ BotIdle
    /\ Started
    /\ site = MainSite
    /\ db_trackings = <<>>
    /\ db_users = <<>>
    /\ \E S \in SUBSET Users : mongo_users = [u \in S |-> [last_active |-> 0]]
    /\ \E S \in SUBSET LegacyDocIds : mongo_products \in [S -> [user_id : Users]]
    /\ \E S \in SUBSET LegacyDocIds : mongo_alerts \in [S -> [user_id : Users]]
    /\ deleted_count = NotCleaned

SpecLegacy == InitLegacy /\ [][CleanupInactiveUsers \/ UpdateLastActive \/ LegacyTick]_vars

\* C32: the legacy cleanup deletes every user whose last_active is older
\* than the inactivity threshold together with all products and alerts of
\* that user, and the count it returns is the number of users it deleted.
C32_CleanupDeletesAndCounts ==
    [][deleted_count' # deleted_count \/ mongo_users' # mongo_users \/ mongo_products' # mongo_products
         \/ mongo_alerts' # mongo_alerts =>
          \/ /\ UNCHANGED <<mongo_products, mongo_alerts, deleted_count>>
             /\ DOMAIN mongo_users \subseteq DOMAIN mongo_users'
          \/ LET old == {u \in DOMAIN mongo_users : mongo_users[u].last_active < now - InactivityDays}
             IN  /\ DOMAIN mongo_users' = DOMAIN mongo_users \ old
                 /\ \A d \in DOMAIN mongo_products :
                        d \in DOMAIN mongo_products' <=> mongo_products[d].user_id \notin old
                 /\ \A d \in DOMAIN mongo_alerts :
                        d \in DOMAIN mongo_alerts' <=> mongo_alerts[d].user_id \notin old
                 /\ deleted_count' = Cardinality(old)]_vars


\* ------------------------------------------------------------------------
\* URL submissions (process_product_url) with the lifecycle commands
\* ------------------------------------------------------------------------

\* max_trackings of a user who is not premium (10 in the handler), scaled
MaxTrackingsFree == 2

\* max_trackings of a premium user (50 in the handler), scaled
MaxTrackingsPremium == 3

\* the ObjectIds insert_one can hand out
SubmitIds == 1..(MaxTrackingsPremium + 1)

\* User(**user_data): the document create_user inserts
CreatedUser == [active_trackings |-> 0, total_alerts_received |-> 0,
                total_trackings |-> 0, is_premium |-> FALSE]

\* the tracking part of add_tracking: insert_one
add_tracking(db, tracking_id, tracking_data) ==
    [id \in DOMAIN db \cup {tracking_id} |-> IF id = tracking_id THEN tracking_data ELSE db[id]]

\* the user-stats part of add_tracking: $inc total_trackings and
\* active_trackings
add_tracking_users(users, user_id) ==
    IF user_id \notin DOMAIN users THEN users
    ELSE [users EXCEPT ![user_id].active_trackings = @ + 1,
                       ![user_id].total_trackings = @ + 1]

\* 50 if user.is_premium else 10
max_trackings(user) == IF user.is_premium THEN MaxTrackingsPremium ELSE MaxTrackingsFree

\* len(user_trackings) >= max_trackings, user_trackings being
\* get_user_trackings with its defaults
limit_reached(db, user_id, user) ==
    Cardinality(get_user_trackings(db, user_id, TRUE, FALSE)) >= max_trackings(user)

\* process_product_url from scrape_product on, for a URL of a supported
\* platform
process_product_url(user_id, scraped) ==
    /\ \E tracking_id \in SubmitIds : tracking_id \notin DOMAIN db_trackings
    /\ LET users_with_sender == IF user_id \in DOMAIN db_users THEN db_users
                                ELSE [u \in DOMAIN db_users \cup {user_id} |->
                                         IF u = user_id THEN CreatedUser ELSE db_users[u]]
           user == users_with_sender[user_id]
           inserted_id == CHOOSE tracking_id \in SubmitIds :
                              /\ tracking_id \notin DOMAIN db_trackings
                              /\ \A other \in SubmitIds :
                                     other \notin DOMAIN db_trackings => tracking_id <= other
       IN  IF scraped.result # "ok"
           THEN /\ reply' = "Failed to fetch product"
                /\ UNCHANGED dbVars
           ELSE IF limit_reached(db_trackings, user_id, user)
           THEN /\ reply' = "Tracking Limit Reached"
                /\ db_users' = users_with_sender
                /\ UNCHANGED db_trackings
           ELSE /\ reply' = "Now Tracking!"
                /\ db_trackings' =
                       add_tracking(db_trackings, inserted_id,
                                    [NewTracking(inserted_id, scraped.price, scraped.stock_status,
                                                 DefaultAlertSettings) EXCEPT !.user_id = user_id])
                /\ db_users' = add_tracking_users(users_with_sender, user_id)
    /\ listing' = NoListing
    /\ UNCHANGED <<now, site, urlVars, startVars, legacyVars, cycleVars, sendVars>>

\* the users who send product URLs (the others send commands only)
Submitters == {1}

\* a user sends a product URL
SubmitUrl ==
    \E user_id \in Submitters, scraped \in site \cup ScrapeFailures : process_product_url(user_id, scraped)

\* /pause, /resume and /stop on the trackings the submissions created
SubmitCommand ==
    \E user_id \in Users, tracking_id \in SubmitIds :
        \/ cmd_pause_tracking(user_id, tracking_id)
        \/ cmd_resume_tracking(user_id, tracking_id)
        \/ cmd_stop_tracking(user_id, tracking_id)

\* no tracking yet; the submitter is new to the bot or a premium user
InitSubmit ==
    /\ InitIdle
    /\ Started
    /\ site = ScrapeProducts({100}, {"in_stock"})
    /\ db_trackings = <<>>
    /\ \/ db_users = <<>>
       \/ db_users = [u \in Submitters |-> [CreatedUser EXCEPT !.is_premium = TRUE]]

SpecSubmit == InitSubmit /\ [][SubmitUrl \/ SubmitCommand]_vars

\* the trackings of a user that are not stopped
NotStopped(db, user_id) == {id \in DOMAIN db : db[id].user_id = user_id /\ db[id].is_active}

\* C33: after any sequence of submissions, /pause, /resume and /stop
\* (a /stop repeated on the same tracking included), the active_trackings
\* counter of every user is the number of that user's trackings with
\* is_active = true, and it is never negative.
C33_CounterMatchesActive ==
    \A user_id \in DOMAIN db_users :
        /\ db_users[user_id].active_trackings = Cardinality(NotStopped(db_trackings, user_id))
        /\ db_users[user_id].active_trackings >= 0

\* C34: a user who is not premium never owns more than max_trackings (10)
\* trackings that are not stopped, a premium user never more than 50,
\* whatever the order of submissions, /pause, /resume and /stop.
C34_LimitOnNotStopped ==
    \A user_id \in DOMAIN db_users :
        Cardinality(NotStopped(db_trackings, user_id)) <= max_trackings(db_users[user_id])


\* ------------------------------------------------------------------------
\* The alert counters over many cycles
\* ------------------------------------------------------------------------
\* two trackings whose product page shows one of two lower prices at a check,
\* so that one tracking can raise a price alert in each of several cycles
InitAlerts ==
    /\ InitIdle
    /\ Started
    /\ site = ScrapeProducts({71, 50}, {"in_stock"})
    /\ db_trackings = [id \in Ids |-> NewTracking(id, 100, "in_stock", DefaultAlertSettings)]
    /\ db_users = [u \in Users |-> NewUser(CountOwned(db_trackings, u))]

SpecAlerts == InitAlerts /\ [][Next]_vars

RECURSIVE SumAlertCount(_, _)
\* the alert_count values of the documents ids, added up
SumAlertCount(db, ids) ==
    IF ids = {} THEN 0
    ELSE LET id == CHOOSE x \in ids : TRUE
         IN  db[id].alert_count + SumAlertCount(db, ids \ {id})

\* the price alerts of the running send_batch_notifications call that have
\* not been sent yet
PendingPriceAlerts ==
    IF pc # "send" THEN {}
    ELSE {n \in (i + k + 1)..Len(notifications) : notifications[n].type = "price_alert"}

\* C35: alert_count of a tracking is the number of price alerts delivered
\* for it: the counts of a user's trackings add up to the deliveries counted
\* for the user by $inc, and the copy of a tracking a pending price alert
\* carries never holds a count older than the stored one, so that no
\* delivery's increment is lost or applied twice.
C35_AlertCountIsDeliveries ==
    /\ \A user_id \in DOMAIN db_users :
           db_users[user_id].total_alerts_received
               = SumAlertCount(db_trackings, {id \in DOMAIN db_trackings :
                                                 db_trackings[id].user_id = user_id})
    /\ \A n \in PendingPriceAlerts :
           /\ notifications[n].tracking.alert_count
                  = db_trackings[notifications[n].tracking.id].alert_count
           /\ \A m \in PendingPriceAlerts :
                  notifications[m].tracking.id = notifications[n].tracking.id => m = n

\* a later cycle delivered a second price alert for a tracking that had been
\* fetched with the count of the first
C35_Witness ==
    /\ pc = "send"
    /\ send_result = "delivered"
    /\ k > 0
    /\ notifications[i + k].type = "price_alert"
    /\ notifications[i + k].tracking.alert_count = 1
    /\ db_trackings[notifications[i + k].tracking.id].alert_count = 2


\* the stored tracking is neither stopped nor paused
Tracked(db, id) == id \in DOMAIN db /\ db[id].is_active /\ ~db[id].is_paused

\* C36: no price update is recorded and no notification is delivered for a
\* tracking that is paused or stopped at that moment, also when the /pause
\* or /stop arrives while a cycle that already fetched the tracking runs.
C36_NoWorkForPausedOrStopped ==
    [][/\ \A id \in DOMAIN db_trackings :
             db_trackings'[id].check_count # db_trackings[id].check_count
                 => Tracked(db_trackings, id)
       /\ (SendStep /\ send_result' = "delivered")
             => Tracked(db_trackings, notifications[i + k + 1].tracking.id)]_vars


\* ------------------------------------------------------------------------
\* Submissions and check cycles together
\* ------------------------------------------------------------------------
SpecHistory == InitSubmit /\ [][SubmitUrl \/ Cycle]_vars

\* C37: for every tracking process_product_url created, at all times
\* check_count + 1 = the number of price_history entries (the entry of the
\* creation plus one per recorded check).
C37_HistoryCountsChecks ==
    \A id \in DOMAIN db_trackings :
        db_trackings[id].check_count + 1 = Len(db_trackings[id].price_history)

\* a tracking checked twice next to one just submitted and not checked yet
C37_Witness ==
    /\ reply = "Now Tracking!"
    /\ \E id \in DOMAIN db_trackings :
           /\ db_trackings[id].check_count = 2
           /\ Len(db_trackings[id].price_history) = 3
    /\ \E id \in DOMAIN db_trackings :
           /\ db_trackings[id].check_count = 0
           /\ Len(db_trackings[id].price_history) = 1


\* C38: a check whose scrape returned no error but found no price on the
\* page (the scraper yields price 0.0) emits no price event for the tracking.
C38_NoPriceNoPriceEvent ==
    (CheckedOk /\ product_data.price = 0) => PriceEvents(LastTracking.id) = 0


\* ------------------------------------------------------------------------
\* Trackings whose alerts are switched off
\* ------------------------------------------------------------------------

\* AlertSettings(enabled=False)
DisabledAlertSettings == [DefaultAlertSettings EXCEPT !.enabled = FALSE]

\* the trackings of the check-cycle model, alerts switched off in their
\* settings
InitDisabled ==
    /\ InitIdle
    /\ Started
    /\ site = MainSite
    /\ db_trackings = [id \in Ids |-> NewTracking(id, 100, "in_stock", DisabledAlertSettings)]
    /\ db_users = [u \in Users |-> NewUser(CountOwned(db_trackings, u))]

SpecDisabled == InitDisabled /\ [][Cycle \/ Dispatch]_vars

\* C39: a check cycle emits no price alert and no stock alert for a tracking
\* whose alert settings have enabled = false.
C39_DisabledNeverAlerts ==
    \A n \in 1..Len(notifications) : notifications[n].tracking.alert_settings.enabled

====
